---------------------------- MODULE Spec2Model ----------------------------
(***************************************************************************)
(* Geo-IP resolution engine of src/unnamed/part_001.                       *)
(*                                                                         *)
(* The file holds two route handlers: the LRU engine (lines 1-287) and the *)
(* Map-cache engine (lines 289-677).  Both validate the caller's address,  *)
(* consult a process-wide cache, deduplicate concurrent lookups through a  *)
(* process-wide map of in-flight promises, race three primary providers    *)
(* with Promise.any and fall back to a fourth provider.                    *)
(*                                                                         *)
(* Scheduling model: JavaScript's run-to-completion event loop.  A task    *)
(* (an incoming request, a provider's response or timeout) runs, then the  *)
(* microtask queue (promise reactions) drains completely before the next   *)
(* task starts.  Each promise reaction is one step of the model.           *)
(*                                                                         *)
(* The environment is explored under two workloads, chosen in the initial  *)
(* state.  In "burst" up to NLookups requests for two public addresses and *)
(* a private one overlap at one instant and every provider may give any of *)
(* its answers.  In "serial" requests for every address follow one another *)
(* as the clock advances, each started once the one before is over; there  *)
(* a provider call either times out or, for ipapi.co and the fallback      *)
(* provider, returns the usable body.                                      *)
(*                                                                         *)
(* Strings are TLA+ strings; JavaScript's undefined and null are the       *)
(* sentinel strings Undefined and Null.  Numbers that the code only copies *)
(* (coordinates) are string tokens.  Date.now() is the variable now, in    *)
(* abstract time units.  The sentinel the handlers use for "no address"    *)
(* (a two-character CJK literal in the source) is written "unknown".       *)
(***************************************************************************)
EXTENDS Integers, Sequences, FiniteSets, TLC

-----------------------------------------------------------------------------
(* Bounds of the model *)

\* Number of GET invocations that may be in progress, or have their response
\* still observed, at the same time.  Any number of lookups follow one another.
NLookups == 2

\* Last value of the clock.
MaxTime == 2

-----------------------------------------------------------------------------
(* JavaScript values *)

Undefined == "<undefined>"

Null == "<null>"

\* null where an object is expected (a GeoData, a response body).
NullObj == [null |-> TRUE]

\* Truthiness of a string-or-absent value: undefined, null and '' are falsy.
Falsy(v) == v \in {Undefined, Null, ""}

\* a || b
Or(a, b) == IF Falsy(a) THEN b ELSE a

\* Position of the first occurrence of the one-character string c in s
\* at or after position i; 0 when there is none.
RECURSIVE IndexFrom(_, _, _)
IndexFrom(s, c, i) ==
  IF i > Len(s) THEN 0
  ELSE IF SubSeq(s, i, i) = c THEN i
  ELSE IndexFrom(s, c, i + 1)

\* String.prototype.includes for a one-character needle.
Includes(s, c) == IndexFrom(s, c, 1) # 0

\* s.startsWith(p)
StartsWith(s, p) == Len(s) >= Len(p) /\ SubSeq(s, 1, Len(p)) = p

\* s.split(',')[0]
FirstField(s) ==
  LET i == IndexFrom(s, ",", 1)
  IN  IF i = 0 THEN s ELSE SubSeq(s, 1, i - 1)

\* String.prototype.trim for blanks.
RECURSIVE Trim(_)
Trim(s) ==
  IF Len(s) = 0 THEN s
  ELSE IF SubSeq(s, 1, 1) = " " THEN Trim(SubSeq(s, 2, Len(s)))
  ELSE IF SubSeq(s, Len(s), Len(s)) = " " THEN Trim(SubSeq(s, 1, Len(s) - 1))
  ELSE s

\* The characters [0-9a-f] under the /i flag.
HexChars ==
  {"0", "1", "2", "3", "4", "5", "6", "7", "8", "9",
   "a", "b", "c", "d", "e", "f", "A", "B", "C", "D", "E", "F"}

\* Character i of s, "" past the end.
CharAt(s, i) == IF i >= 1 /\ i <= Len(s) THEN SubSeq(s, i, i) ELSE ""

\* Case-insensitive comparison of character i of s with the lower-case letter c.
CharIs(s, i, c, upper) == CharAt(s, i) \in {c, upper}

-----------------------------------------------------------------------------
(* Address validator *)

\* /^127\./
Re127(ip) == StartsWith(ip, "127.")

\* /^10\./
Re10(ip) == StartsWith(ip, "10.")

\* /^172\.(1[6-9]|2[0-9]|3[0-1])\./
Re172(ip) ==
  /\ StartsWith(ip, "172.")
  /\ \/ CharAt(ip, 5) = "1" /\ CharAt(ip, 6) \in {"6", "7", "8", "9"}
     \/ CharAt(ip, 5) = "2"
          /\ CharAt(ip, 6) \in {"0", "1", "2", "3", "4", "5", "6", "7", "8", "9"}
     \/ CharAt(ip, 5) = "3" /\ CharAt(ip, 6) \in {"0", "1"}
  /\ CharAt(ip, 7) = "."

\* /^192\.168\./
Re192(ip) == StartsWith(ip, "192.168.")

\* /^::1$/
ReLoopback6(ip) == ip = "::1"

\* /^fd[0-9a-f]{2}:.+/i
ReUniqueLocal(ip) ==
  /\ CharIs(ip, 1, "f", "F")
  /\ CharIs(ip, 2, "d", "D")
  /\ CharAt(ip, 3) \in HexChars
  /\ CharAt(ip, 4) \in HexChars
  /\ CharAt(ip, 5) = ":"
  /\ Len(ip) >= 6

\* /^fe80:.+/i
ReLinkLocal(ip) ==
  /\ CharIs(ip, 1, "f", "F")
  /\ CharIs(ip, 2, "e", "E")
  /\ CharAt(ip, 3) = "8"
  /\ CharAt(ip, 4) = "0"
  /\ CharAt(ip, 5) = ":"
  /\ Len(ip) >= 6

\* Lower-case form of one character, for the letters the /i patterns name.
LowerChar(c) ==
  CASE c = "L" -> "l" [] c = "O" -> "o" [] c = "C" -> "c" [] c = "A" -> "a"
    [] c = "H" -> "h" [] c = "S" -> "s" [] c = "T" -> "t"
    [] OTHER -> c

RECURSIVE ToLower(_)
ToLower(s) ==
  IF Len(s) = 0 THEN s
  ELSE LowerChar(SubSeq(s, 1, 1)) \o ToLower(SubSeq(s, 2, Len(s)))

\* /^localhost$/i
ReLocalhost(ip) == ToLower(ip) = "localhost"

\* PRIVATE_IP_RANGES.some(pattern => pattern.test(ip))
PRIVATE_IP_RANGES(ip) ==
  \/ Re127(ip)
  \/ Re10(ip)
  \/ Re172(ip)
  \/ Re192(ip)
  \/ ReLoopback6(ip)
  \/ ReUniqueLocal(ip)
  \/ ReLinkLocal(ip)
  \/ ReLocalhost(ip)

\* isValidPublicIP of the LRU engine.
isValidPublicIP(ip) ==
  IF Falsy(ip) \/ ip = "unknown" \/ ip = "127.0.0.1" THEN FALSE
  ELSE IF ~Includes(ip, ".") /\ ~Includes(ip, ":") THEN FALSE
  ELSE ~PRIVATE_IP_RANGES(ip)

\* isValidPublicIP of the Map-cache engine.
isValidPublicIPM(ip) ==
  IF Falsy(ip) \/ ip = "unknown" THEN FALSE
  ELSE IF ~Includes(ip, ".") /\ ~Includes(ip, ":") THEN FALSE
  ELSE ~PRIVATE_IP_RANGES(ip)

-----------------------------------------------------------------------------
(* LRU cache (class LRUCache) *)

\* new LRUCache(1000, ...): the capacity, scaled down.
maxEntries == 2

\* new LRUCache(..., 1000 * 60 * 10): the time to live, in clock units.
ttlMs == 1

\* The Map of the cache is a sequence of entries in insertion order:
\* [key, value, expiresAt], the first element being Map.keys().next().
CacheKeys(c) == {c[i].key : i \in 1..Len(c)}

\* Map.has
CacheHas(c, key) == key \in CacheKeys(c)

\* Map.get of a key that is present
CacheEntry(c, key) == c[CHOOSE i \in 1..Len(c) : c[i].key = key]

\* Map.delete
RECURSIVE MapDelete(_, _)
MapDelete(c, key) ==
  IF c = <<>> THEN <<>>
  ELSE IF Head(c).key = key THEN Tail(c)
  ELSE <<Head(c)>> \o MapDelete(Tail(c), key)

\* Map.set: an existing key keeps its place, a new key goes last.
MapSet(c, key, entry) ==
  IF CacheHas(c, key)
  THEN [i \in 1..Len(c) |-> IF c[i].key = key THEN entry ELSE c[i]]
  ELSE Append(c, entry)

\* The expiry test of LRUCache.get.
LRUExpired(entry, t) == t > entry.expiresAt

\* A faulty LRUCache.get, which leaves the entry it reads where it is.
LRUGetInPlace(c, key, t) ==
  IF ~CacheHas(c, key) THEN [cache |-> c, value |-> NullObj]
  ELSE LET entry == CacheEntry(c, key)
       IN  IF LRUExpired(entry, t)
           THEN [cache |-> MapDelete(c, key), value |-> NullObj]
           ELSE [cache |-> c, value |-> entry.value]

\* A faulty LRUCache.get, which renews the expiration of the entry it serves.
LRUGetSliding(c, key, t) ==
  IF ~CacheHas(c, key) THEN [cache |-> c, value |-> NullObj]
  ELSE LET entry == CacheEntry(c, key)
       IN  IF LRUExpired(entry, t)
           THEN [cache |-> MapDelete(c, key), value |-> NullObj]
           ELSE [cache |-> MapSet(MapDelete(c, key), key,
                                  [entry EXCEPT !.expiresAt = t + ttlMs]),
                 value |-> entry.value]

\* LRUCache.get(key) at time t: the cache afterwards and the value returned.
LRUGet(c, key, t) ==
  IF ~CacheHas(c, key) THEN [cache |-> c, value |-> NullObj]
  ELSE LET entry == CacheEntry(c, key)
       IN  IF LRUExpired(entry, t)
           THEN [cache |-> MapDelete(c, key), value |-> NullObj]
           ELSE [cache |-> MapSet(MapDelete(c, key), key, entry),
                 value |-> entry.value]

\* A faulty choice of the key to remove: the one most recently used.
LRUVictimNewest(c) == IF c = <<>> THEN Undefined ELSE c[Len(c)].key

\* The key LRUCache.set removes to make room: Map.keys().next().value.
LRUVictim(c) == IF c = <<>> THEN Undefined ELSE Head(c).key

\* A faulty LRUCache.set, which never makes room.
LRUSetUnbounded(c, key, value, t) ==
  MapSet(IF CacheHas(c, key) THEN MapDelete(c, key) ELSE c, key,
         [key |-> key, value |-> value, expiresAt |-> t + ttlMs])

\* A faulty LRUCache.set, which overwrites a key where it stands.
LRUSetInPlace(c, key, value, t) ==
  LET c1 == IF CacheHas(c, key) THEN c
            ELSE IF Len(c) >= maxEntries
                 THEN LET firstKey == LRUVictim(c)
                      IN  IF ~Falsy(firstKey) THEN MapDelete(c, firstKey) ELSE c
                 ELSE c
  IN  MapSet(c1, key, [key |-> key, value |-> value, expiresAt |-> t + ttlMs])

\* LRUCache.set(key, value) at time t: the cache afterwards.
LRUSet(c, key, value, t) ==
  LET c1 == IF CacheHas(c, key) THEN MapDelete(c, key)
            ELSE IF Len(c) >= maxEntries
                 THEN LET firstKey == LRUVictim(c)
                      IN  IF ~Falsy(firstKey) THEN MapDelete(c, firstKey) ELSE c
                 ELSE c
  IN  MapSet(c1, key, [key |-> key, value |-> value, expiresAt |-> t + ttlMs])

-----------------------------------------------------------------------------
(* The cache of the Map-cache engine: a bare Map of { data, expiresAt } *)

\* CACHE_TTL_MS, in clock units.
CACHE_TTL_MS == 1

\* The size above which the cache write removes an entry (1000), scaled down.
MapCacheLimit == 2

\* Step 2 of GET: ipCache.get(ip), served if cached.expiresAt > now.  The
\* Map is left as it is.
MapCacheRead(c, key, t) ==
  IF CacheHas(c, key) /\ CacheEntry(c, key).expiresAt > t
  THEN [cache |-> c, value |-> CacheEntry(c, key).value]
  ELSE [cache |-> c, value |-> NullObj]

\* The cache write of the .then reaction, with its cleanup.
MapCacheWrite(c, key, data, t) ==
  LET c1 == MapSet(c, key, [key |-> key, value |-> data,
                            expiresAt |-> t + CACHE_TTL_MS])
  IN  IF Len(c1) > MapCacheLimit
      THEN LET firstKey == Head(c1).key
           IN  IF ~Falsy(firstKey) THEN MapDelete(c1, firstKey) ELSE c1
      ELSE c1

-----------------------------------------------------------------------------
(* Fetch governor and provider adapters of the LRU engine *)

\* What one outbound HTTP call comes to: fetch rejected (network error, or
\* aborted by the timeout), a non-2xx status, a body that is not JSON, or a
\* 2xx response whose body parsed.
ReplyKinds == {"network_error", "aborted", "bad_status", "bad_json", "ok"}

Reply(kind, body) == [kind |-> kind, body |-> body]

\* An exception thrown, or a promise rejected: in fetchService, in an adapter
\* that throws new Error('Invalid').
Thrown == [thrown |-> TRUE]

\* The try block of fetchService: `await fetch` rejects on a network error and
\* on the abort of the timer, a status that is not ok is thrown, `res.json()`
\* rejects on a body that is not JSON; otherwise the parsed body is returned.
FetchTry(reply) ==
  CASE reply.kind \in {"network_error", "aborted"} -> Thrown
    [] reply.kind = "bad_status" -> Thrown
    [] reply.kind = "bad_json" -> Thrown
    [] reply.kind = "ok" -> reply.body

\* A faulty fetchService, without its catch block.
fetchServiceUncaught(reply) == FetchTry(reply)

\* fetchService: the parsed body, or null from the catch block.
fetchService(reply) ==
  LET attempt == FetchTry(reply)
  IN  IF attempt = Thrown THEN NullObj ELSE attempt

\* queryIpApiCo(ip), given what the provider answered.
queryIpApiCo(ip, reply) ==
  LET data == fetchService(reply)
  IN  IF data = NullObj THEN Thrown
      ELSE IF data.error \/ Falsy(data.country_code) THEN Thrown
      ELSE [source      |-> "ipapi.co",
            ip          |-> Or(data.ip, ip),
            country     |-> data.country_code,
            countryName |-> data.country_name,
            city        |-> data.city,
            region      |-> data.region,
            timezone    |-> data.timezone,
            latitude    |-> data.latitude,
            longitude   |-> data.longitude,
            accurate    |-> TRUE]

\* data.loc.split(',').map(Number): the token before and after the comma.
LocPair(loc) ==
  LET i == IndexFrom(loc, ",", 1)
  IN  IF i = 0 THEN <<loc, Undefined>>
      ELSE <<SubSeq(loc, 1, i - 1), SubSeq(loc, i + 1, Len(loc))>>

\* queryIpInfo(ip), given what the provider answered.
queryIpInfo(ip, reply) ==
  LET data == fetchService(reply)
  IN  IF data = NullObj THEN Thrown
      ELSE IF Falsy(data.country) THEN Thrown
      ELSE LET latlon == IF ~Falsy(data.loc) THEN LocPair(data.loc)
                         ELSE <<Null, Null>>
           IN  [source      |-> "ipinfo",
                ip          |-> Or(data.ip, ip),
                country     |-> data.country,
                countryName |-> data.country,
                city        |-> data.city,
                region      |-> data.region,
                timezone    |-> data.timezone,
                latitude    |-> latlon[1],
                longitude   |-> latlon[2],
                accurate    |-> TRUE]

\* data.timezone?.id
OptionalId(tz) == IF tz = NullObj THEN Undefined ELSE tz.id

\* A faulty queryIpWhoIs, which does not look at the success flag.
queryIpWhoIsTrusting(ip, reply) ==
  LET data == fetchService(reply)
  IN  IF data = NullObj THEN Thrown
      ELSE IF Falsy(data.country_code) THEN Thrown
      ELSE [source      |-> "ipwhois",
            ip          |-> Or(data.ip, ip),
            country     |-> data.country_code,
            countryName |-> data.country,
            city        |-> data.city,
            region      |-> data.region,
            timezone    |-> OptionalId(data.timezone),
            latitude    |-> data.latitude,
            longitude   |-> data.longitude,
            accurate    |-> TRUE]

\* queryIpWhoIs(ip), given what the provider answered.
queryIpWhoIs(ip, reply) ==
  LET data == fetchService(reply)
  IN  IF data = NullObj THEN Thrown
      ELSE IF ~data.success \/ Falsy(data.country_code) THEN Thrown
      ELSE [source      |-> "ipwhois",
            ip          |-> Or(data.ip, ip),
            country     |-> data.country_code,
            countryName |-> data.country,
            city        |-> data.city,
            region      |-> data.region,
            timezone    |-> OptionalId(data.timezone),
            latitude    |-> data.latitude,
            longitude   |-> data.longitude,
            accurate    |-> TRUE]

\* A faulty fallback adapter, which labels its record as a primary's.
queryFreeIpApiMislabelled(ip, reply) ==
  LET data == fetchService(reply)
  IN  IF data = NullObj THEN Thrown
      ELSE IF Falsy(data.countryCode) THEN Thrown
      ELSE [source      |-> "ipapi.co",
            ip          |-> Or(data.ipAddress, ip),
            country     |-> data.countryCode,
            countryName |-> data.countryName,
            city        |-> data.cityName,
            region      |-> data.regionName,
            timezone    |-> data.timeZone,
            latitude    |-> data.latitude,
            longitude   |-> data.longitude,
            accurate    |-> TRUE]

\* queryFreeIpApi(ip), the fallback adapter, given what the provider answered.
queryFreeIpApi(ip, reply) ==
  LET data == fetchService(reply)
  IN  IF data = NullObj THEN Thrown
      ELSE IF Falsy(data.countryCode) THEN Thrown
      ELSE [source      |-> "freeipapi",
            ip          |-> Or(data.ipAddress, ip),
            country     |-> data.countryCode,
            countryName |-> data.countryName,
            city        |-> data.cityName,
            region      |-> data.regionName,
            timezone    |-> data.timeZone,
            latitude    |-> data.latitude,
            longitude   |-> data.longitude,
            accurate    |-> TRUE]

-----------------------------------------------------------------------------
(* Provider adapters of the Map-cache engine *)

\* The try block of fetchService of the Map-cache engine (its metrics are not
\* modelled).
FetchTryM(reply) ==
  CASE reply.kind \in {"network_error", "aborted"} -> Thrown
    [] reply.kind = "bad_status" -> Thrown
    [] reply.kind = "bad_json" -> Thrown
    [] reply.kind = "ok" -> reply.body

\* fetchService of the Map-cache engine: the parsed body, or null from the
\* catch block.
fetchServiceM(reply) ==
  LET attempt == FetchTryM(reply)
  IN  IF attempt = Thrown THEN NullObj ELSE attempt

\* queryIpApiCo(ip) of the Map-cache engine.
queryIpApiCoM(ip, reply) ==
  LET data == fetchServiceM(reply)
  IN  IF data = NullObj THEN Thrown
      ELSE IF data.error \/ Falsy(data.country_code) THEN Thrown
      ELSE [source      |-> "ipapi.co",
            ip          |-> Or(data.ip, ip),
            country     |-> data.country_code,
            countryName |-> Or(data.country_name, data.country_code),
            city        |-> Or(data.city, ""),
            region      |-> Or(data.region, ""),
            timezone    |-> Or(data.timezone, ""),
            latitude    |-> Or(data.latitude, Null),
            longitude   |-> Or(data.longitude, Null),
            accurate    |-> TRUE]

\* queryIpInfo(ip) of the Map-cache engine.
queryIpInfoM(ip, reply) ==
  LET data == fetchServiceM(reply)
  IN  IF data = NullObj THEN Thrown
      ELSE IF Falsy(data.country) THEN Thrown
      ELSE LET latlon == IF ~Falsy(data.loc) THEN LocPair(data.loc)
                         ELSE <<Null, Null>>
           IN  [source      |-> "ipinfo",
                ip          |-> Or(data.ip, ip),
                country     |-> data.country,
                countryName |-> data.country,
                city        |-> Or(data.city, ""),
                region      |-> Or(data.region, ""),
                timezone    |-> Or(data.timezone, ""),
                latitude    |-> latlon[1],
                longitude   |-> latlon[2],
                accurate    |-> TRUE]

\* queryIpWhoIs(ip) of the Map-cache engine.
queryIpWhoIsM(ip, reply) ==
  LET data == fetchServiceM(reply)
  IN  IF data = NullObj THEN Thrown
      ELSE IF ~data.success \/ Falsy(data.country_code) THEN Thrown
      ELSE [source      |-> "ipwhois",
            ip          |-> Or(data.ip, ip),
            country     |-> data.country_code,
            countryName |-> Or(data.country, data.country_code),
            city        |-> Or(data.city, ""),
            region      |-> Or(data.region, ""),
            timezone    |-> Or(OptionalId(data.timezone), ""),
            latitude    |-> Or(data.latitude, Null),
            longitude   |-> Or(data.longitude, Null),
            accurate    |-> TRUE]

\* queryIpApiCom(ip), the fallback adapter of the Map-cache engine.
queryIpApiCom(ip, reply) ==
  LET data == fetchServiceM(reply)
  IN  IF data = NullObj THEN Thrown
      ELSE IF data.status # "success" THEN Thrown
      ELSE [source      |-> "ip-api",
            ip          |-> Or(data.query, ip),
            country     |-> data.countryCode,
            countryName |-> data.country,
            city        |-> data.city,
            region      |-> data.regionName,
            timezone    |-> data.timezone,
            latitude    |-> data.lat,
            longitude   |-> data.lon,
            accurate    |-> TRUE]

-----------------------------------------------------------------------------
(* The two engines side by side *)

Engines == {"lru", "map"}

\* The three adapters raced by Promise.any, in the order of primaryStrategies.
Primaries == {"ipapi.co", "ipinfo", "ipwhois"}

\* The primary adapter named a of engine e, applied.
QueryPrimary(e, a, ip, reply) ==
  CASE e = "lru" /\ a = "ipapi.co" -> queryIpApiCo(ip, reply)
    [] e = "lru" /\ a = "ipinfo"   -> queryIpInfo(ip, reply)
    [] e = "lru" /\ a = "ipwhois"  -> queryIpWhoIs(ip, reply)
    [] e = "map" /\ a = "ipapi.co" -> queryIpApiCoM(ip, reply)
    [] e = "map" /\ a = "ipinfo"   -> queryIpInfoM(ip, reply)
    [] e = "map" /\ a = "ipwhois"  -> queryIpWhoIsM(ip, reply)

\* The fallback adapter of engine e, applied.
QueryFallback(e, ip, reply) ==
  IF e = "lru" THEN queryFreeIpApi(ip, reply) ELSE queryIpApiCom(ip, reply)

\* A faulty validation step, which lets every address through.
ValidIpAny(e, ip) == TRUE

\* isValidPublicIP of engine e.
ValidIp(e, ip) ==
  IF e = "lru" THEN isValidPublicIP(ip) ELSE isValidPublicIPM(ip)

\* A faulty cache read, which annotates the stored record itself.
CacheReadAnnotating(e, c, key, t) ==
  LET got == IF e = "lru" THEN LRUGet(c, key, t) ELSE MapCacheRead(c, key, t)
  IN  IF got.value = NullObj THEN got
      ELSE [cache |-> [i \in 1..Len(got.cache) |->
                         IF got.cache[i].key = key
                         THEN [got.cache[i] EXCEPT
                                 !.value.source = @ \o " (cache)"]
                         ELSE got.cache[i]],
            value |-> got.value]

\* The cache lookup of GET in engine e at time t.
CacheRead(e, c, key, t) ==
  IF e = "lru" THEN LRUGet(c, key, t) ELSE MapCacheRead(c, key, t)

\* A faulty cache write, keyed by the address the provider echoed.
ThenCacheWriteEchoed(e, c, key, data, t) ==
  IF e = "lru" THEN LRUSet(c, data.ip, data, t)
  ELSE MapCacheWrite(c, data.ip, data, t)

\* The cache write of the .then reaction in engine e at time t.
ThenCacheWrite(e, c, key, data, t) ==
  IF e = "lru" THEN LRUSet(c, key, data, t) ELSE MapCacheWrite(c, key, data, t)

-----------------------------------------------------------------------------
(* Environment: requests and provider answers *)

\* request.headers.get(...) of the three headers GET reads; Null when absent.
Request(xff, cfIp, realIp) == [xff |-> xff, cfIp |-> cfIp, realIp |-> realIp]

\* The requests the environment sends.
Requests ==
  {Request("8.8.8.8", Null, Null),
   Request(" 1.1.1.1 , 10.0.0.1", Null, "8.8.8.8"),
   Request(Null, "9.9.9.9", "1.1.1.1"),
   Request(Null, Null, "8.8.8.8"),
   Request("192.168.1.5, 8.8.8.8", "9.9.9.9", Null),
   Request("192.168.1.5", Null, Null),
   Request(Null, Null, Null)}

\* Step 1 of GET in the LRU engine: the candidate address from the headers.
ExtractIpLru(req) ==
  IF ~Falsy(req.xff) THEN Trim(FirstField(req.xff))
  ELSE IF ~Falsy(req.cfIp) THEN req.cfIp
  ELSE IF ~Falsy(req.realIp) THEN req.realIp
  ELSE "unknown"

\* xff.split(',').map(s => s.trim())
RECURSIVE SplitTrim(_)
SplitTrim(s) ==
  LET i == IndexFrom(s, ",", 1)
  IN  IF i = 0 THEN <<Trim(s)>>
      ELSE <<Trim(SubSeq(s, 1, i - 1))>> \o SplitTrim(SubSeq(s, i + 1, Len(s)))

\* ips.find(i => isValidPublicIP(i)): Undefined when there is none.
RECURSIVE FindPublic(_)
FindPublic(ips) ==
  IF ips = <<>> THEN Undefined
  ELSE IF isValidPublicIPM(Head(ips)) THEN Head(ips)
  ELSE FindPublic(Tail(ips))

\* Step 1 of GET in the Map-cache engine: the first public address of
\* x-forwarded-for, else cf-connecting-ip, else x-real-ip, when public.
ExtractIpMap(req) ==
  LET publicIp == IF ~Falsy(req.xff) THEN FindPublic(SplitTrim(req.xff))
                  ELSE Undefined
      ip1 == IF ~Falsy(publicIp) THEN publicIp ELSE "unknown"
  IN  IF isValidPublicIPM(ip1) THEN ip1
      ELSE IF isValidPublicIPM(req.cfIp) THEN req.cfIp
      ELSE IF isValidPublicIPM(req.realIp) THEN req.realIp
      ELSE ip1

\* The candidate address of engine e.
ExtractIp(e, req) ==
  IF e = "lru" THEN ExtractIpLru(req) ELSE ExtractIpMap(req)

\* Every address a request of the environment leads to.
Addresses == {ExtractIp(e, req) : e \in Engines, req \in Requests}

\* The workloads of the environment.
Profiles == {"burst", "serial"}

\* The requests sent in a burst: two public addresses and a private one.
BurstRequests ==
  {req \in Requests :
     ExtractIpLru(req) \in {"8.8.8.8", "1.1.1.1", "192.168.1.5"}}

\* The requests of a workload.
RequestsOf(p) == IF p = "burst" THEN BurstRequests ELSE Requests

\* Answers of ipapi.co: a usable body, a body flagged as an error that still
\* carries a country code, a body without a country code.
IpApiCoBodies ==
  {[error |-> FALSE, ip |-> Undefined, country_code |-> "US",
    country_name |-> "United States", city |-> "Mountain View",
    region |-> "California", timezone |-> "America/Los_Angeles",
    latitude |-> "37.4", longitude |-> "-122.1"],
   [error |-> TRUE, ip |-> Undefined, country_code |-> "US",
    country_name |-> "United States", city |-> "Mountain View",
    region |-> "California", timezone |-> "America/Los_Angeles",
    latitude |-> "37.4", longitude |-> "-122.1"],
   [error |-> FALSE, ip |-> Undefined, country_code |-> Undefined,
    country_name |-> Undefined, city |-> "Mountain View",
    region |-> Undefined, timezone |-> Undefined,
    latitude |-> Undefined, longitude |-> Undefined]}

\* Answers of ipinfo.io: a usable body, which echoes an address other than
\* the one asked about, and a body without a country.
IpInfoBodies ==
  {[ip |-> "8.8.4.4", country |-> "US", city |-> "Mountain View",
    region |-> "California", timezone |-> "America/Los_Angeles",
    loc |-> "37.4,-122.1"],
   [ip |-> Undefined, country |-> "", city |-> "Mountain View",
    region |-> "California", timezone |-> Undefined, loc |-> Undefined]}

\* Answers of ipwho.is: a usable body, a body whose success flag is false and
\* that still carries a country code, a body without a country code.
IpWhoIsBodies ==
  {[success |-> TRUE, ip |-> Undefined, country_code |-> "US",
    country |-> "United States", city |-> "Mountain View",
    region |-> "California", timezone |-> [id |-> "America/Los_Angeles"],
    latitude |-> "37.4", longitude |-> "-122.1"],
   [success |-> FALSE, ip |-> Undefined, country_code |-> "US",
    country |-> "United States", city |-> "Mountain View",
    region |-> "California", timezone |-> NullObj,
    latitude |-> "37.4", longitude |-> "-122.1"],
   [success |-> TRUE, ip |-> Undefined, country_code |-> Undefined,
    country |-> Undefined, city |-> Undefined,
    region |-> Undefined, timezone |-> NullObj,
    latitude |-> Undefined, longitude |-> Undefined]}

\* Answers of freeipapi.com: a usable body, a body without a country code.
FreeIpApiBodies ==
  {[ipAddress |-> Undefined, countryCode |-> "US",
    countryName |-> "United States", cityName |-> "Mountain View",
    regionName |-> "California", timeZone |-> "America/Los_Angeles",
    latitude |-> "37.4", longitude |-> "-122.1"],
   [ipAddress |-> Undefined, countryCode |-> "",
    countryName |-> Undefined, cityName |-> Undefined,
    regionName |-> Undefined, timeZone |-> Undefined,
    latitude |-> Undefined, longitude |-> Undefined]}

\* Answers of ip-api.com: a usable body, a body whose status is not
\* 'success', a body with status 'success' and no country code.
IpApiComBodies ==
  {[status |-> "success", query |-> Undefined, countryCode |-> "US",
    country |-> "United States", regionName |-> "California",
    city |-> "Mountain View", timezone |-> "America/Los_Angeles",
    lat |-> "37.4", lon |-> "-122.1"],
   [status |-> "fail", query |-> Undefined, countryCode |-> "US",
    country |-> "United States", regionName |-> "California",
    city |-> "Mountain View", timezone |-> "America/Los_Angeles",
    lat |-> "37.4", lon |-> "-122.1"],
   [status |-> "success", query |-> Undefined, countryCode |-> Undefined,
    country |-> Undefined, regionName |-> Undefined,
    city |-> Undefined, timezone |-> Undefined,
    lat |-> Undefined, lon |-> Undefined]}

\* The outcomes of one outbound call whose 2xx bodies are `bodies`.
RepliesOf(bodies) ==
  {Reply(k, NullObj) : k \in ReplyKinds \ {"ok"}}
    \cup {Reply("ok", b) : b \in bodies}

\* The outcomes of a call to primary adapter a.
PrimaryReplies(a) ==
  CASE a = "ipapi.co" -> RepliesOf(IpApiCoBodies)
    [] a = "ipinfo"   -> RepliesOf(IpInfoBodies)
    [] a = "ipwhois"  -> RepliesOf(IpWhoIsBodies)

\* The outcomes of a call to the fallback adapter of engine e.
FallbackReplies(e) ==
  IF e = "lru" THEN RepliesOf(FreeIpApiBodies) ELSE RepliesOf(IpApiComBodies)

\* The outcomes of a call to adapter a under the serial workload: every call
\* may time out, ipapi.co and the fallback provider may also answer with
\* their usable body.
SerialReplies(a) ==
  {Reply("aborted", NullObj)} \cup
    {Reply("ok", b) : b \in
       CASE a = "ipapi.co" ->
              {x \in IpApiCoBodies : ~x.error /\ x.country_code = "US"}
         [] a = "fallback" ->
              {x \in FreeIpApiBodies : x.countryCode = "US"} \cup
              {x \in IpApiComBodies :
                 x.status = "success" /\ x.countryCode = "US"}
         [] OTHER -> {}}

-----------------------------------------------------------------------------
(* State *)

VARIABLES
  engine,    \* which of the two handlers of part_001 is deployed
  profile,   \* the workload of the environment
  now,       \* Date.now()
  cache,     \* ipCache: the entries of its Map, in insertion order
  inflight,  \* inflightRequests: address -> the promise registered, 0 if none
  lk,        \* the GET invocations: where each is and what it returned
  res,       \* the promise chains, each named after the invocation that built it
  recency,   \* history of the LRU engine: the addresses put or successfully
             \* read, oldest first
  evicted,   \* history: addresses evicted for capacity and not looked up since
  fresh,     \* history: per address, the provider record a lookup last
             \* returned for it, when, and whether its cache entry has been
             \* evicted since, while the time to live since then runs
  failed     \* history: the addresses whose latest resolution settled as a
             \* failure and that have not been looked up since

engineVars ==
  <<engine, profile, now, cache, inflight, lk, res, recency, evicted, fresh,
    failed>>

\* The validator taken on its own: the string it is given, what it answered.
VARIABLES probe, verdict

\* One adapter call taken on its own: the adapter, the address, what the
\* provider answered, what fetchService returned and what the adapter did.
VARIABLE call

\* The LRUCache taken on its own: the last operation performed on it.
VARIABLE op

\* The legacy handler of part_000 taken on its own: one invocation of its GET.
VARIABLE legacy

\* The header-based route of src/app/api/ip-info/route.ts: its last invocation.
VARIABLE route

\* The page of src/app/page.tsx: the component and its initializeApp effect.
VARIABLE page

\* The generators of src/lib/generator.ts: the last call, the values its
\* random draws took and what it returned.
VARIABLE gen

\* The programs beside the engine.
sideVars == <<legacy, route, page, gen>>

vars == <<engineVars, probe, verdict, call, op, sideVars>>

\* The legacy GET has not been invoked.
NoLegacy ==
  [pc |-> "idle", ip |-> "", svc |-> <<>>, order |-> <<>>, result |-> NullObj]

\* The route has not been invoked.
NoRoute == [pc |-> "idle", req |-> NullObj, result |-> NullObj]

\* The country codes of the list `countries` of '@/lib/countryData', of
\* which three entries are kept; the first is the default selection.
countries == <<"CN", "US", "DE">>

\* The component before it is mounted: the initial values of its useState.
NoPage ==
  [pc |-> "idle", isMounted |-> FALSE, isInitialized |-> FALSE,
   selectedCountry |-> countries[1],
   ipInfo |-> [ip |-> "...", country |-> "US"],
   response |-> NullObj, data |-> NullObj, selections |-> 0]

\* No generator has been called.
NoGen == [fn |-> "none", args |-> NullObj, draws |-> NullObj, out |-> NullObj]

\* None of the programs beside the engine has run.
SideIdle ==
  /\ legacy = NoLegacy
  /\ route = NoRoute
  /\ page = NoPage
  /\ gen = NoGen

Lookups == 1..NLookups

\* A GET that has not been invoked.
IdleLookup ==
  [pc |-> "idle", ip |-> "", handle |-> 0, result |-> NullObj,
   via |-> "none", reads |-> {}, doneAt |-> 0]

\* No operation has been performed on the cache.
NoOp ==
  [name |-> "none", key |-> "", value |-> NullObj, had |-> FALSE,
   size |-> 0, ret |-> NullObj]

\* No adapter call is under observation.
NoCall ==
  [pc |-> "none", adapter |-> "", ip |-> "", reply |-> NullObj,
   data |-> NullObj, out |-> NullObj]

\* A promise chain that has not been built.
NoResolution ==
  [stage |-> "none", ip |-> "", prim |-> [a \in Primaries |-> "idle"],
   fb |-> "idle", outcome |-> "pending", value |-> NullObj, first |-> "none",
   waiters |-> <<>>,
   calls |-> [a \in Primaries \cup {"fallback"} |-> 0]]

Init ==
  /\ engine \in Engines
  /\ profile \in Profiles
  /\ now = 0
  /\ cache = <<>>
  /\ inflight = [ip \in Addresses |-> 0]
  /\ lk = [l \in Lookups |-> IdleLookup]
  /\ res = [l \in Lookups |-> NoResolution]
  /\ recency = <<>>
  /\ evicted = {}
  /\ fresh = [ip \in Addresses |-> NullObj]
  /\ failed = {}
  /\ op = NoOp
  /\ probe = ""
  /\ verdict = NullObj
  /\ call = NoCall
  /\ SideIdle

\* The stages of a chain in which a promise reaction is queued.
ReactionStages == {"catch", "then", "finally"}

\* A faulty await, from which only the lookup that built the chain resumes.
ResumableBuilderOnly ==
  {l \in Lookups : lk[l].pc = "awaiting" /\ lk[l].handle = l
                     /\ res[l].stage = "settled"}

\* The lookups whose await has a settled promise to resume from.
Resumable ==
  {l \in Lookups : lk[l].pc = "awaiting" /\ res[lk[l].handle].stage = "settled"}

\* The outbound calls of chain r that have not completed.
PendingCalls(r) ==
  {a \in Primaries : res[r].prim[a] = "pending"}
    \cup (IF res[r].fb = "pending" THEN {"fallback"} ELSE {})

\* The microtask queue is empty.
MicrotasksIdle ==
  /\ \A r \in Lookups : res[r].stage \notin ReactionStages
  /\ Resumable = {}

\* The response of l has been delivered, the calls of the chain it built have
\* completed and the lookups that joined that chain are over.
Over(l) ==
  /\ MicrotasksIdle
  /\ lk[l].pc = "done"
  /\ PendingCalls(l) = {}
  /\ \A k \in Lookups \ {l} : lk[k].pc = "idle" \/ lk[k].handle # l

\* A faulty event loop, which runs a task while promise reactions are queued.
LoopReadyEarly == \A l \in Lookups : ~Over(l)

\* The event loop may run the next task.  An invocation that is over leaves
\* the model before the next task runs.
LoopReady ==
  /\ MicrotasksIdle
  /\ \A l \in Lookups : ~Over(l)

\* No GET is in progress and every outbound call has completed.
Quiet == \A k \in Lookups : lk[k].pc = "idle"

\* History: key becomes the most recently used.
Touch(seq, key) == Append(SelectSeq(seq, LAMBDA k : k # key), key)

\* The time to live of the cache of engine e.
TimeToLive(e) == IF e = "lru" THEN ttlMs ELSE CACHE_TTL_MS

\* History: the addresses of dropped lose their entry to the capacity bound.
MarkEvicted(f, dropped) ==
  [ip \in Addresses |->
     IF ip \in dropped /\ f[ip] # NullObj
     THEN [f[ip] EXCEPT !.evicted = TRUE] ELSE f[ip]]

-----------------------------------------------------------------------------
(* GET, up to its await *)

\* A faulty rejection record, which claims to be accurate.
RejectionRecordAccurate(ip) ==
  [source |-> "internal", ip |-> ip, country |-> "US", accurate |-> TRUE,
   error |-> "Private or Invalid IP"]

\* The record the LRU engine returns for an address that fails validation.
RejectionRecord(ip) ==
  [source |-> "internal", ip |-> ip, country |-> "US", accurate |-> FALSE,
   error |-> "Private or Invalid IP"]

\* The record the Map-cache engine returns for such an address.
RejectionRecordM(ip) ==
  [source |-> "internal", ip |-> ip, country |-> "US",
   countryName |-> "United States", city |-> "", region |-> "",
   timezone |-> "", latitude |-> Null, longitude |-> Null,
   accurate |-> FALSE, error |-> "Invalid or Private IP address detected"]

\* A faulty cache hit, which returns the cached record as it is.
CacheHitRecordPlain(cached) == cached

\* The record returned on a cache hit: { ...cached, source: `${source} (cache)` }.
CacheHitRecord(cached) ==
  [cached EXCEPT !.source = cached.source \o " (cache)"]

\* A faulty degraded record, which says nothing of the failure.
DegradedRecordSilent(ip) ==
  [source |-> "fallback_error", ip |-> ip, country |-> "US",
   countryName |-> "United States", accurate |-> FALSE, error |-> ""]

\* The record the LRU engine returns when awaiting the shared promise throws.
DegradedRecord(ip) ==
  [source |-> "fallback_error", ip |-> ip, country |-> "US",
   countryName |-> "United States", accurate |-> FALSE,
   error |-> "All services failed"]

\* The record the Map-cache engine returns then.
DegradedRecordM(ip) ==
  [source |-> "fallback", ip |-> ip, country |-> "US",
   countryName |-> "United States", city |-> "", region |-> "",
   timezone |-> "", latitude |-> Null, longitude |-> Null,
   accurate |-> FALSE, error |-> "All IP geolocation services failed"]

\* A faulty inflightRequests.get, which never finds a registered promise.
InflightGetNone(m, ip) == 0

\* inflightRequests.get(ip): 0 stands for undefined.
InflightGet(m, ip) == m[ip]

\* A faulty registration, which is not made in the step that built the chain.
InflightSetDeferred(m, ip, promise) == m

\* inflightRequests.set(ip, fetchPromise)
InflightSet(m, ip, promise) == [m EXCEPT ![ip] = promise]

\* The chain built for ip: the three primary calls are issued at once.
NewResolution(ip) ==
  [NoResolution EXCEPT
     !.stage = "racing", !.ip = ip,
     !.prim = [a \in Primaries |-> "pending"],
     !.calls = [a \in Primaries \cup {"fallback"} |->
                  IF a \in Primaries THEN 1 ELSE 0]]

\* A lookup that returned `record` by way `via`.
Returned(l, ip, record, via, reads) ==
  [lk[l] EXCEPT !.pc = "done", !.ip = ip, !.result = record, !.via = via,
                !.reads = reads, !.doneAt = now]

\* A lookup that awaits `promise`.
Awaiting(l, ip, promise, via) ==
  [lk[l] EXCEPT !.pc = "awaiting", !.ip = ip, !.handle = promise,
                !.via = via, !.reads = {"cache", "inflight"}]

\* GET from its invocation to its first await (or its return).
Start(l, req) ==
  LET ip == ExtractIp(engine, req) IN
  /\ LoopReady
  /\ lk[l].pc = "idle"
  /\ \A k \in Lookups : k < l => lk[k].pc # "idle"
  /\ req \in RequestsOf(profile)
  /\ profile = "serial" => Quiet
  /\ UNCHANGED <<sideVars, op, call, probe, verdict, engine, profile, now, fresh>>
  /\ failed' = failed \ {ip}
  /\ IF ~ValidIp(engine, ip)
     THEN /\ lk' = [lk EXCEPT ![l] =
                      Returned(l, ip,
                               IF engine = "lru" THEN RejectionRecord(ip)
                               ELSE RejectionRecordM(ip),
                               "rejected", {})]
          /\ UNCHANGED <<cache, inflight, res, recency, evicted>>
     ELSE LET got == CacheRead(engine, cache, ip, now) IN
          /\ cache' = got.cache
          /\ evicted' = evicted \ {ip}
          /\ IF got.value # NullObj
             THEN /\ lk' = [lk EXCEPT ![l] =
                              Returned(l, ip, CacheHitRecord(got.value),
                                       "hit", {"cache"})]
                  /\ recency' = IF engine = "lru" THEN Touch(recency, ip)
                                ELSE recency
                  /\ UNCHANGED <<inflight, res>>
             ELSE LET fetchPromise == InflightGet(inflight, ip) IN
                  /\ recency' = recency
                  /\ IF fetchPromise # 0
                     THEN /\ lk' = [lk EXCEPT ![l] =
                                      Awaiting(l, ip, fetchPromise, "joined")]
                          /\ res' = [res EXCEPT ![fetchPromise].waiters =
                                        Append(@, l)]
                          /\ UNCHANGED inflight
                     ELSE /\ res' = [res EXCEPT ![l] =
                                       [NewResolution(ip) EXCEPT
                                          !.waiters = <<l>>]]
                          /\ inflight' = InflightSet(inflight, ip, l)
                          /\ lk' = [lk EXCEPT ![l] =
                                      Awaiting(l, ip, l, "fresh")]

-----------------------------------------------------------------------------
(* The promise chain: Promise.any(...).catch(...).then(...).finally(...) *)

\* A faulty race with the semantics of Promise.race: the first primary to
\* settle decides, a failure included.
PromiseRace(prim, a, out) ==
  IF out # Thrown THEN "fulfilled" ELSE "rejected"

\* A faulty race, which waits until every primary has settled.
PromiseAwaitAll(prim, a, out) ==
  IF \E b \in Primaries \ {a} : prim[b] = "pending" THEN "pending"
  ELSE IF out # Thrown THEN "fulfilled"
  ELSE "rejected"

\* Promise.any while it is pending, when primary a settles with `out` and the
\* other primaries stand as in prim: fulfilled by the first success, rejected
\* once every primary has failed.
PromiseAny(prim, a, out) ==
  IF out # Thrown THEN "fulfilled"
  ELSE IF \A b \in Primaries \ {a} : prim[b] = "fail" THEN "rejected"
  ELSE "pending"

\* What the pending call of primary a of chain r may come to: the adapter's
\* record or Thrown, for each answer the provider may give.
PrimaryOutcomes(r, a) ==
  IF res[r].prim[a] # "pending" THEN {}
  ELSE {QueryPrimary(engine, a, res[r].ip, reply) :
          reply \in IF profile = "serial" THEN SerialReplies(a)
                    ELSE PrimaryReplies(a)}

\* The same for the pending fallback call of chain r.
FallbackOutcomes(r) ==
  IF res[r].fb # "pending" THEN {}
  ELSE {QueryFallback(engine, res[r].ip, reply) :
          reply \in IF profile = "serial"
                    THEN SerialReplies("fallback") \cap FallbackReplies(engine)
                    ELSE FallbackReplies(engine)}

\* A faulty race, in which a primary that succeeds after the race was
\* decided replaces the record of the chain.
RaceSettledLastWins(chain, a, out) ==
  LET ok == out # Thrown
      racing == chain.stage = "racing"
      any == IF racing THEN PromiseAny(chain.prim, a, out) ELSE "settled"
  IN  [chain EXCEPT
         !.prim[a] = IF ~racing THEN "done" ELSE IF ok THEN "ok" ELSE "fail",
         !.first = IF ok /\ @ = "none" THEN a ELSE @,
         !.stage = CASE any = "fulfilled" -> "then"
                     [] any = "rejected" -> "catch"
                     [] OTHER -> @,
         !.value = IF ok THEN out ELSE @]

\* The chain once the call of primary a has completed with `out`: Promise.any
\* takes it into account while it is pending and ignores it afterwards.
RaceSettled(chain, a, out) ==
  LET ok == out # Thrown
      racing == chain.stage = "racing"
      any == IF racing THEN PromiseAny(chain.prim, a, out) ELSE "settled"
  IN  [chain EXCEPT
         !.prim[a] = IF ~racing THEN "done" ELSE IF ok THEN "ok" ELSE "fail",
         !.first = IF ok /\ @ = "none" THEN a ELSE @,
         !.stage = CASE any = "fulfilled" -> "then"
                     [] any = "rejected" -> "catch"
                     [] OTHER -> @,
         !.value = IF any = "fulfilled" THEN out ELSE @]

\* The task in which the call of primary a of chain r completes with `out`.
PrimarySettle(r, a, out) ==
  /\ LoopReady
  /\ res[r].prim[a] = "pending"
  /\ res' = [res EXCEPT ![r] = RaceSettled(@, a, out)]
      /\ UNCHANGED <<sideVars, op, call, probe, verdict, engine, profile, now, cache, inflight,
                     lk, recency, evicted, fresh, failed>>

\* A faulty .catch reaction, which calls the fallback adapter twice.
CatchEnteredTwice(chain) ==
  [chain EXCEPT !.stage = "fallback", !.fb = "pending",
                !.calls["fallback"] = @ + 2]

\* The chain once the .catch reaction has called the fallback adapter.
CatchEntered(chain) ==
  [chain EXCEPT !.stage = "fallback", !.fb = "pending",
                !.calls["fallback"] = @ + 1]

\* The .catch reaction: every primary failed, the fallback is called.
CatchHandler(r) ==
  /\ res[r].stage = "catch"
  /\ res' = [res EXCEPT ![r] = CatchEntered(@)]
  /\ UNCHANGED <<sideVars, op, call, probe, verdict, engine, profile, now, cache, inflight, lk,
                 recency, evicted, fresh, failed>>

\* A faulty .catch reaction, which makes up a record when the fallback fails.
CatchSettledFabricating(chain, out) ==
  IF out # Thrown
  THEN [chain EXCEPT !.fb = "ok", !.stage = "then", !.value = out]
  ELSE [chain EXCEPT !.fb = "fail", !.stage = "then",
                     !.value = DegradedRecord(chain.ip)]

\* The chain once `return await queryFreeIpApi(ip)` of the .catch reaction
\* has completed with `out`: its record goes on to .then, its failure passes
\* .then by and rejects the chain.
CatchSettled(chain, out) ==
  IF out # Thrown
  THEN [chain EXCEPT !.fb = "ok", !.stage = "then", !.value = out]
  ELSE [chain EXCEPT !.fb = "fail", !.stage = "finally",
                     !.outcome = "rejected"]

\* The task in which the fallback call of chain r completes with `out`.
FallbackSettle(r, out) ==
  /\ LoopReady
  /\ res[r].stage = "fallback"
  /\ res[r].fb = "pending"
  /\ res' = [res EXCEPT ![r] = CatchSettled(@, out)]
  /\ UNCHANGED <<sideVars, op, call, probe, verdict, engine, profile, now, cache, inflight, lk,
                 recency, evicted, fresh, failed>>

\* The .then reaction: the record is written to the cache and passed on.
ThenHandler(r) ==
  LET ip == res[r].ip
      after == ThenCacheWrite(engine, cache, ip, res[r].value, now)
      dropped == CacheKeys(cache) \ CacheKeys(after)
  IN  /\ res[r].stage = "then"
      /\ cache' = after
      /\ recency' = IF engine = "lru" THEN Touch(recency, ip) ELSE recency
      /\ evicted' = (evicted \cup dropped) \ {ip}
      /\ res' = [res EXCEPT ![r] =
           [@ EXCEPT !.stage = "finally", !.outcome = "fulfilled"]]
      /\ fresh' = MarkEvicted(fresh, dropped)
      /\ UNCHANGED <<sideVars, op, call, probe, verdict, engine, profile, now, inflight, lk,
                     failed>>

\* A faulty .finally, which leaves the address in the in-flight map.
InflightKeep(m, ip) == m

\* A faulty .finally, which empties the in-flight map.
InflightClear(m, ip) == [a \in DOMAIN m |-> 0]

\* inflightRequests.delete(ip)
InflightDelete(m, ip) == [m EXCEPT ![ip] = 0]

\* The .finally reaction: the address leaves the in-flight map, then the
\* promise the lookups await settles.
FinallyHandler(r) ==
  /\ res[r].stage = "finally"
  /\ inflight' = InflightDelete(inflight, res[r].ip)
  /\ res' = [res EXCEPT ![r] =
       [@ EXCEPT !.stage = "settled",
                 !.prim = [a \in Primaries |->
                             IF @[a] = "pending" THEN "pending" ELSE "done"]]]
  /\ failed' = IF res[r].outcome = "rejected" THEN failed \cup {res[r].ip}
               ELSE failed
  /\ UNCHANGED <<sideVars, op, call, probe, verdict, engine, profile, now, cache, lk, recency,
                 evicted, fresh>>

\* A faulty step 5, which takes the catch branch whatever the promise did.
AwaitResultCaught(e, chain, ip) ==
  IF e = "lru" THEN DegradedRecord(ip) ELSE DegradedRecordM(ip)

\* A faulty step 5, in which only the last lookup to resume receives the
\* record of the chain.
AwaitResultLastOnly(e, chain, ip) ==
  IF chain.outcome = "fulfilled" /\ Len(chain.waiters) <= 1 THEN chain.value
  ELSE IF e = "lru" THEN DegradedRecord(ip) ELSE DegradedRecordM(ip)

\* Step 5 of GET: what the lookup returns once the promise it awaits settles.
AwaitResult(e, chain, ip) ==
  IF chain.outcome = "fulfilled" THEN chain.value
  ELSE IF e = "lru" THEN DegradedRecord(ip) ELSE DegradedRecordM(ip)

\* The continuation of a GET after its await; continuations run in the
\* order in which the lookups began to wait.
Resume(l) ==
  LET r == lk[l].handle
      result == AwaitResult(engine, res[r], lk[l].ip)
  IN  /\ l \in Resumable
      /\ res[r].waiters # <<>>
      /\ Head(res[r].waiters) = l
      /\ lk' = [lk EXCEPT ![l] =
           [@ EXCEPT !.pc = "done", !.doneAt = now, !.result = result]]
      /\ res' = [res EXCEPT ![r].waiters = Tail(@)]
      /\ fresh' = IF result.accurate
                  THEN [fresh EXCEPT ![lk[l].ip] =
                          [rec |-> result, at |-> now,
                           evicted |-> ~CacheHas(cache, lk[l].ip)]]
                  ELSE fresh
      /\ UNCHANGED <<sideVars, op, call, probe, verdict, engine, profile, now, cache, inflight,
                     recency, evicted, failed>>

\* The response of a finished GET has been delivered and its invocation is
\* over.  The invocation that built a chain ends in the model once the calls
\* of the chain have completed and the lookups that joined it are over.
Forget(l) ==
  /\ Over(l)
  /\ lk' = [lk EXCEPT ![l] = IdleLookup]
  /\ res' = [res EXCEPT ![l] = NoResolution]
  /\ UNCHANGED <<sideVars, op, call, probe, verdict, engine, profile, now, cache, inflight,
                 recency, evicted, fresh, failed>>

\* Time passes between tasks.  A record whose time to live has run out is
\* dropped from the history.
Tick ==
  /\ LoopReady
  /\ profile = "serial"
  /\ now < MaxTime
  /\ now' = now + 1
  /\ fresh' = [ip \in Addresses |->
                 IF fresh[ip] # NullObj
                      /\ now + 1 >= fresh[ip].at + TimeToLive(engine)
                 THEN NullObj ELSE fresh[ip]]
  /\ UNCHANGED <<sideVars, op, call, probe, verdict, engine, profile, cache, inflight, lk, res,
                 recency, evicted, failed>>

Next ==
  \/ \E l \in Lookups, req \in Requests : Start(l, req)
  \/ \E r \in Lookups, a \in Primaries :
       \E out \in PrimaryOutcomes(r, a) : PrimarySettle(r, a, out)
  \/ \E r \in Lookups : CatchHandler(r)
  \/ \E r \in Lookups :
       \E out \in FallbackOutcomes(r) : FallbackSettle(r, out)
  \/ \E r \in Lookups : ThenHandler(r)
  \/ \E r \in Lookups : FinallyHandler(r)
  \/ \E l \in Lookups : Resume(l)
  \/ \E l \in Lookups : Forget(l)
  \/ Tick

Spec == Init /\ [][Next]_vars

-----------------------------------------------------------------------------
(* The validator on its own *)

\* The strings the validator is tried on.  IPv4 addresses: a leading pair of
\* octets on either side of each private range, then two more octets.
V4Heads ==
  {"10.0", "10.255", "11.0", "9.255", "100.64", "126.255", "127.0",
   "127.255", "128.0", "172.15", "172.16", "172.20", "172.31", "172.32",
   "172.160", "192.167", "192.168", "192.169", "8.8"}

V4Tails == {".0.1", ".255.254"}

V4Probes == {h \o t : h \in V4Heads, t \in V4Tails}

\* IPv6 addresses: a first group on either side of fe80::/10 and fc00::/7, in
\* both cases of letters, then the rest of the address.
V6Heads ==
  {"fe7f", "fe80", "fe81", "fe90", "fea0", "febf", "fec0", "fe00", "fbff",
   "fc00", "fc01", "fcff", "fd00", "fd12", "fdff", "2001", "FE80", "FEBF",
   "FC00", "FD00", "Fd12"}

V6Tails == {"::1", ":1::2"}

V6Probes == {h \o t : h \in V6Heads, t \in V6Tails} \cup {"::1", "::2"}

\* Strings that are no address: absent, empty, the placeholder, host names,
\* strings with neither '.' nor ':'.
OtherProbes ==
  {Undefined, Null, "", "unknown", "localhost", "LOCALHOST", "LocalHost",
   "abc", "12345", "fe80", "fd00", "example"}

Probes == V4Probes \cup V6Probes \cup OtherProbes

InitValidator ==
  /\ engine = "lru"
  /\ profile = "burst"
  /\ now = 0
  /\ cache = <<>>
  /\ inflight = [ip \in Addresses |-> 0]
  /\ lk = [l \in Lookups |-> IdleLookup]
  /\ res = [l \in Lookups |-> NoResolution]
  /\ recency = <<>>
  /\ evicted = {}
  /\ fresh = [ip \in Addresses |-> NullObj]
  /\ failed = {}
  /\ op = NoOp
  /\ probe \in Probes
  /\ verdict = NullObj
  /\ call = NoCall
  /\ SideIdle

\* isValidPublicIP(probe) in the LRU engine.
Validate ==
  /\ verdict = NullObj
  /\ verdict' = [by |-> "lru", valid |-> isValidPublicIP(probe)]
  /\ UNCHANGED <<sideVars, engineVars, probe, call, op>>

\* isValidPublicIP(probe) in the Map-cache engine.
ValidateM ==
  /\ verdict = NullObj
  /\ verdict' = [by |-> "map", valid |-> isValidPublicIPM(probe)]
  /\ UNCHANGED <<sideVars, engineVars, probe, call, op>>

NextValidator == Validate \/ ValidateM

SpecValidator == InitValidator /\ [][NextValidator]_vars

-----------------------------------------------------------------------------
(* One adapter call on its own *)

\* What the provider behind adapter a of engine e may answer.
RepliesTo(e, a) ==
  IF a = "fallback" THEN FallbackReplies(e) ELSE PrimaryReplies(a)

\* The addresses GET hands to an adapter of engine e: those it validated.
Lookable(e) == {ip \in Addresses : ValidIp(e, ip)}

\* Adapter a of engine e, applied.
Query(e, a, ip, reply) ==
  IF a = "fallback" THEN QueryFallback(e, ip, reply)
  ELSE QueryPrimary(e, a, ip, reply)

InitAdapter ==
  /\ engine \in Engines
  /\ profile = "burst"
  /\ now = 0
  /\ cache = <<>>
  /\ inflight = [ip \in Addresses |-> 0]
  /\ lk = [l \in Lookups |-> IdleLookup]
  /\ res = [l \in Lookups |-> NoResolution]
  /\ recency = <<>>
  /\ evicted = {}
  /\ fresh = [ip \in Addresses |-> NullObj]
  /\ failed = {}
  /\ op = NoOp
  /\ probe = ""
  /\ verdict = NullObj
  /\ \E a \in Primaries \cup {"fallback"}, ip \in Lookable(engine) :
       \E reply \in RepliesTo(engine, a) :
         call = [NoCall EXCEPT !.pc = "called", !.adapter = a, !.ip = ip,
                              !.reply = reply]
  /\ SideIdle

\* fetchService returns to the adapter that awaits it.
Fetch ==
  /\ call.pc = "called"
  /\ call' = [call EXCEPT
                !.pc = "fetched",
                !.data = IF engine = "lru" THEN fetchService(call.reply)
                         ELSE fetchServiceM(call.reply)]
  /\ UNCHANGED <<sideVars, engineVars, probe, verdict, op>>

\* The adapter returns its record or throws.
Answer ==
  /\ call.pc = "fetched"
  /\ call' = [call EXCEPT
                !.pc = "answered",
                !.out = Query(engine, call.adapter, call.ip, call.reply)]
  /\ UNCHANGED <<sideVars, engineVars, probe, verdict, op>>

NextAdapter == Fetch \/ Answer

SpecAdapter == InitAdapter /\ [][NextAdapter]_vars

-----------------------------------------------------------------------------
(* The LRUCache on its own *)

\* The keys and values the cache is exercised with.
Keys == {"8.8.8.8", "1.1.1.1", "9.9.9.9"}

Values ==
  {[source |-> "ipapi.co", country |-> "US", accurate |-> TRUE],
   [source |-> "ipinfo", country |-> "DE", accurate |-> TRUE]}

InitCache ==
  /\ engine = "lru"
  /\ profile = "serial"
  /\ now = 0
  /\ cache = <<>>
  /\ inflight = [ip \in Addresses |-> 0]
  /\ lk = [l \in Lookups |-> IdleLookup]
  /\ res = [l \in Lookups |-> NoResolution]
  /\ recency = <<>>
  /\ evicted = {}
  /\ fresh = [ip \in Addresses |-> NullObj]
  /\ failed = {}
  /\ op = NoOp
  /\ probe = ""
  /\ verdict = NullObj
  /\ call = NoCall
  /\ SideIdle

\* What is recorded of an operation on key: whether the key was in the Map
\* and how many entries the Map had.
Operation(name, key, value, ret) ==
  [name |-> name, key |-> key, value |-> value, had |-> CacheHas(cache, key),
   size |-> Len(cache), ret |-> ret]

\* ipCache.set(key, value)
Set(key, value) ==
  /\ cache' = LRUSet(cache, key, value, now)
  /\ op' = Operation("set", key, value, NullObj)
  /\ UNCHANGED <<sideVars, engine, profile, now, inflight, lk, res, recency, evicted,
                 fresh, failed, probe, verdict, call>>

\* ipCache.get(key)
Get(key) ==
  LET got == LRUGet(cache, key, now) IN
  /\ cache' = got.cache
  /\ op' = Operation("get", key, NullObj, got.value)
  /\ UNCHANGED <<sideVars, engine, profile, now, inflight, lk, res, recency, evicted,
                 fresh, failed, probe, verdict, call>>

\* Time passes between two operations.
Elapse ==
  /\ now < MaxTime
  /\ now' = now + 1
  /\ op' = [NoOp EXCEPT !.name = "elapse"]
  /\ UNCHANGED <<sideVars, engine, profile, cache, inflight, lk, res, recency, evicted,
                 fresh, failed, probe, verdict, call>>

NextCache ==
  \/ \E key \in Keys, value \in Values : Set(key, value)
  \/ \E key \in Keys : Get(key)
  \/ Elapse

SpecCache == InitCache /\ [][NextCache]_vars

-----------------------------------------------------------------------------
(* The cache of the Map-cache engine on its own *)

InitMapCache ==
  /\ engine = "map"
  /\ profile = "serial"
  /\ now = 0
  /\ cache = <<>>
  /\ inflight = [ip \in Addresses |-> 0]
  /\ lk = [l \in Lookups |-> IdleLookup]
  /\ res = [l \in Lookups |-> NoResolution]
  /\ recency = <<>>
  /\ evicted = {}
  /\ fresh = [ip \in Addresses |-> NullObj]
  /\ failed = {}
  /\ op = NoOp
  /\ probe = ""
  /\ verdict = NullObj
  /\ call = NoCall
  /\ SideIdle

\* Step 2 of GET for key: ipCache.get(key) and the test of its expiration.
\* A record that is served counts as a use of key.
MapRead(key) ==
  LET got == MapCacheRead(cache, key, now) IN
  /\ cache' = got.cache
  /\ recency' = IF got.value # NullObj THEN Touch(recency, key) ELSE recency
  /\ op' = Operation("get", key, NullObj, got.value)
  /\ UNCHANGED <<sideVars, engine, profile, now, inflight, lk, res, evicted, fresh,
                 failed, probe, verdict, call>>

\* The .then reaction of a chain built for key: the write and the cleanup.
\* GET builds a chain for key only after step 2 found no record to serve.
MapWrite(key, value) ==
  /\ MapCacheRead(cache, key, now).value = NullObj
  /\ cache' = MapCacheWrite(cache, key, value, now)
  /\ recency' = Touch(recency, key)
  /\ op' = Operation("set", key, value, NullObj)
  /\ UNCHANGED <<sideVars, engine, profile, now, inflight, lk, res, evicted, fresh,
                 failed, probe, verdict, call>>

NextMapCache ==
  \/ \E key \in Keys, value \in Values : MapWrite(key, value)
  \/ \E key \in Keys : MapRead(key)
  \/ Elapse

SpecMapCache == InitMapCache /\ [][NextMapCache]_vars

-----------------------------------------------------------------------------
(* The legacy handler (src/unnamed/part_000) *)

\* /^fe80:/i
ReLinkLocal0(ip) ==
  /\ CharIs(ip, 1, "f", "F")
  /\ CharIs(ip, 2, "e", "E")
  /\ CharAt(ip, 3) = "8"
  /\ CharAt(ip, 4) = "0"
  /\ CharAt(ip, 5) = ":"

\* PRIVATE_IP_RANGES.some(pattern => pattern.test(ipAddr)) of part_000
PRIVATE_IP_RANGES0(ip) ==
  \/ Re10(ip)
  \/ Re172(ip)
  \/ Re192(ip)
  \/ Re127(ip)
  \/ ReLocalhost(ip)
  \/ ReLoopback6(ip)
  \/ ReLinkLocal0(ip)

\* isValidPublicIP of part_000
isValidPublicIP0(ipAddr) ==
  IF ipAddr = "unknown" \/ Falsy(ipAddr) THEN FALSE
  ELSE ~PRIVATE_IP_RANGES0(ipAddr)

\* The address GET of part_000 reads from the headers.
ExtractIp0(req) ==
  Or(req.cfIp,
     Or(IF req.xff \in {Null, Undefined} THEN Undefined
        ELSE Trim(FirstField(req.xff)),
        Or(req.realIp, "unknown")))

\* fetchWithTimeout: the response when its status is ok, null when fetch
\* rejects (caught) or the status is not ok.
fetchWithTimeout(reply) ==
  IF reply.kind \in {"ok", "bad_json"} THEN reply ELSE NullObj

\* response.json(): rejects on a body that is not JSON.
ResponseJson(response) ==
  IF response.kind = "bad_json" THEN Thrown ELSE response.body

\* createIPResponse(data); an error that is absent or empty is left out.
createIPResponse(data) ==
  IF Falsy(data.error)
  THEN [source      |-> data.source,
        ip          |-> data.ip,
        country     |-> data.country,
        countryName |-> Or(data.countryName, data.country),
        city        |-> Or(data.city, ""),
        region      |-> Or(data.region, ""),
        timezone    |-> Or(data.timezone, ""),
        latitude    |-> Or(data.latitude, Null),
        longitude   |-> Or(data.longitude, Null),
        accurate    |-> data.accurate]
  ELSE [source      |-> data.source,
        ip          |-> data.ip,
        country     |-> data.country,
        countryName |-> Or(data.countryName, data.country),
        city        |-> Or(data.city, ""),
        region      |-> Or(data.region, ""),
        timezone    |-> Or(data.timezone, ""),
        latitude    |-> Or(data.latitude, Null),
        longitude   |-> Or(data.longitude, Null),
        accurate    |-> data.accurate,
        error       |-> data.error]

\* The record returned for an address that is not public.  The message, in
\* Chinese in the source, is rendered in English.
HeaderRecord(ip) ==
  createIPResponse(
    [source |-> "header", ip |-> ip, country |-> "US",
     countryName |-> "United States", city |-> Undefined,
     region |-> Undefined, timezone |-> Undefined, latitude |-> Undefined,
     longitude |-> Undefined, accurate |-> FALSE,
     error |-> "no valid public IP address detected"])

\* The record returned when every service has failed.
FinalRecord(ip) ==
  createIPResponse(
    [source |-> "fallback", ip |-> ip, country |-> "US",
     countryName |-> "United States", city |-> Undefined,
     region |-> Undefined, timezone |-> Undefined, latitude |-> Undefined,
     longitude |-> Undefined, accurate |-> FALSE,
     error |-> "all IP detection services are unavailable"])

\* The first step after validation: the aliceservice.net call, inside its
\* try block.  NullObj stands for "no record, go on".
AliceService(ip, reply) ==
  LET response == fetchWithTimeout(reply)
  IN  IF response = NullObj THEN NullObj
      ELSE LET data == ResponseJson(response)
           IN  IF data = Thrown THEN NullObj
               ELSE IF Falsy(data.country_code) THEN NullObj
               ELSE createIPResponse(
                      [source |-> "aliceservice", ip |-> Or(data.ip, ip),
                       country |-> data.country_code,
                       countryName |-> data.country, city |-> "",
                       region |-> data.continent, timezone |-> "",
                       latitude |-> Null, longitude |-> Null,
                       accurate |-> TRUE, error |-> Undefined])

\* servicePromises[0]: what the promise of the ipapi.co service settles to;
\* null, a response, or Thrown when response.json() rejects.
ServiceIpApiCo(ip, reply) ==
  LET response == fetchWithTimeout(reply)
  IN  IF response = NullObj THEN NullObj
      ELSE LET data == ResponseJson(response)
           IN  IF data = Thrown THEN Thrown
               ELSE IF ~Falsy(data.country_code) /\ ~data.error
               THEN createIPResponse(
                      [source |-> "ipapi.co", ip |-> Or(data.ip, ip),
                       country |-> data.country_code,
                       countryName |-> data.country_name,
                       city |-> data.city, region |-> data.region,
                       timezone |-> data.timezone,
                       latitude |-> data.latitude,
                       longitude |-> data.longitude,
                       accurate |-> TRUE, error |-> Undefined])
               ELSE NullObj

\* servicePromises[1]: the ipinfo.io service.
ServiceIpInfo(ip, reply) ==
  LET response == fetchWithTimeout(reply)
  IN  IF response = NullObj THEN NullObj
      ELSE LET data == ResponseJson(response)
           IN  IF data = Thrown THEN Thrown
               ELSE IF ~Falsy(data.country)
               THEN LET latlon == IF data.loc \in {Undefined, Null}
                                  THEN <<Null, Null>>
                                  ELSE LocPair(data.loc)
                    IN  createIPResponse(
                          [source |-> "ipinfo", ip |-> Or(data.ip, ip),
                           country |-> data.country,
                           countryName |-> data.country,
                           city |-> data.city, region |-> data.region,
                           timezone |-> data.timezone,
                           latitude |-> latlon[1], longitude |-> latlon[2],
                           accurate |-> TRUE, error |-> Undefined])
               ELSE NullObj

\* servicePromises[2]: the ipwho.is service.
ServiceIpWhoIs(ip, reply) ==
  LET response == fetchWithTimeout(reply)
  IN  IF response = NullObj THEN NullObj
      ELSE LET data == ResponseJson(response)
           IN  IF data = Thrown THEN Thrown
               ELSE IF data.success /\ ~Falsy(data.country_code)
               THEN createIPResponse(
                      [source |-> "ipwhois", ip |-> Or(data.ip, ip),
                       country |-> data.country_code,
                       countryName |-> data.country,
                       city |-> data.city, region |-> data.region,
                       timezone |-> OptionalId(data.timezone),
                       latitude |-> data.latitude,
                       longitude |-> data.longitude,
                       accurate |-> TRUE, error |-> Undefined])
               ELSE NullObj

\* The last resort: the ip-api.com call, inside its try block.
ServiceIpApi(ip, reply) ==
  LET response == fetchWithTimeout(reply)
  IN  IF response = NullObj THEN NullObj
      ELSE LET data == ResponseJson(response)
           IN  IF data = Thrown THEN NullObj
               ELSE IF data.status = "success" /\ ~Falsy(data.countryCode)
               THEN createIPResponse(
                      [source |-> "ip-api", ip |-> Or(data.query, ip),
                       country |-> data.countryCode,
                       countryName |-> data.country,
                       city |-> data.city,
                       region |-> Or(data.regionName, data.region),
                       timezone |-> data.timezone,
                       latitude |-> data.lat, longitude |-> data.lon,
                       accurate |-> TRUE, error |-> Undefined])
               ELSE NullObj

\* The raced services, in the order of the array servicePromises.
servicePromises == <<"ipapi.co", "ipinfo", "ipwhois">>

\* What the promise of service a settles to.
Service(a, ip, reply) ==
  CASE a = "ipapi.co" -> ServiceIpApiCo(ip, reply)
    [] a = "ipinfo"   -> ServiceIpInfo(ip, reply)
    [] a = "ipwhois"  -> ServiceIpWhoIs(ip, reply)

\* Answers of aliceservice.net: a usable body, a body without country code.
AliceBodies ==
  {[ip |-> "8.8.8.8", country |-> "United States", country_code |-> "US",
    continent |-> "North America"],
   [ip |-> Undefined, country |-> Undefined, country_code |-> Undefined,
    continent |-> Undefined]}

\* Answers of ip-api.com to the legacy handler: a usable body, a body whose
\* status is not 'success'.
IpApiBodies ==
  {[status |-> "success", query |-> Undefined, countryCode |-> "US",
    country |-> "United States", regionName |-> Undefined,
    region |-> "CA", city |-> "Mountain View",
    timezone |-> "America/Los_Angeles", lat |-> "37.4", lon |-> "-122.1"],
   [status |-> "fail", query |-> Undefined, countryCode |-> Undefined,
    country |-> Undefined, regionName |-> Undefined, region |-> Undefined,
    city |-> Undefined, timezone |-> Undefined,
    lat |-> Undefined, lon |-> Undefined]}

\* A promise that has not settled.
Pending == [pending |-> TRUE]

\* results.find(r => r !== null) over the services from position i on.
RECURSIVE FindSuccess(_, _)
FindSuccess(svc, i) ==
  IF i > Len(servicePromises) THEN NullObj
  ELSE IF svc[servicePromises[i]] # NullObj THEN svc[servicePromises[i]]
  ELSE FindSuccess(svc, i + 1)

\* Promise.race over the mapped promises, decided by the first service to
\* settle: its response, or Thrown when it settled to null or rejected.
RaceOfMapped(out) == IF out \in {NullObj, Thrown} THEN Thrown ELSE out

\* Promise.all(servicePromises): Thrown as soon as one promise has rejected,
\* Pending while one has not settled, else the array of what they settled to.
PromiseAll(svc) ==
  IF \E a \in Primaries : svc[a] = Thrown THEN Thrown
  ELSE IF \E a \in Primaries : svc[a] = Pending THEN Pending
  ELSE svc

\* GET after the race was lost: it awaits Promise.all outside any try block,
\* returns the first response of the array, or goes on to ip-api.com.
AfterRace(l, svc) ==
  LET results == PromiseAll(svc)
  IN  IF results = Thrown THEN [l EXCEPT !.pc = "done", !.result = Thrown]
      ELSE IF results = Pending THEN [l EXCEPT !.pc = "all"]
      ELSE IF FindSuccess(results, 1) # NullObj
           THEN [l EXCEPT !.pc = "done", !.result = FindSuccess(results, 1)]
      ELSE [l EXCEPT !.pc = "fallback"]

InitLegacy ==
  /\ engine = "lru"
  /\ profile = "burst"
  /\ now = 0
  /\ cache = <<>>
  /\ inflight = [ip \in Addresses |-> 0]
  /\ lk = [l \in Lookups |-> IdleLookup]
  /\ res = [l \in Lookups |-> NoResolution]
  /\ recency = <<>>
  /\ evicted = {}
  /\ fresh = [ip \in Addresses |-> NullObj]
  /\ failed = {}
  /\ op = NoOp
  /\ probe = ""
  /\ verdict = NullObj
  /\ call = NoCall
  /\ SideIdle

\* GET is invoked: the address is read and validated, and the aliceservice
\* call is issued.
LegacyStart(req) ==
  LET ip == ExtractIp0(req) IN
  /\ legacy.pc = "idle"
  /\ legacy' = IF ~isValidPublicIP0(ip)
               THEN [legacy EXCEPT !.pc = "done", !.ip = ip,
                                   !.result = HeaderRecord(ip)]
               ELSE [legacy EXCEPT !.pc = "alice", !.ip = ip]
  /\ UNCHANGED <<engineVars, probe, verdict, call, op, route, page, gen>>

\* The aliceservice call completes: GET returns its record, or issues the
\* three service calls at once and awaits the race.
AliceSettle(reply) ==
  LET out == AliceService(legacy.ip, reply) IN
  /\ legacy.pc = "alice"
  /\ legacy' = IF out # NullObj
               THEN [legacy EXCEPT !.pc = "done", !.result = out]
               ELSE [legacy EXCEPT !.pc = "race",
                                   !.svc = [a \in Primaries |-> Pending]]
  /\ UNCHANGED <<engineVars, probe, verdict, call, op, route, page, gen>>

\* The promise of service a settles, and GET resumes if what it awaits has
\* settled by it.
ServiceSettle(a, reply) ==
  LET out == Service(a, legacy.ip, reply)
      svc == [legacy.svc EXCEPT ![a] = out]
      l == [legacy EXCEPT !.svc = svc, !.order = Append(@, a)]
  IN  /\ legacy.pc \in {"race", "all", "fallback", "done"}
      /\ legacy.svc # <<>>
      /\ legacy.svc[a] = Pending
      /\ legacy' =
           CASE legacy.pc = "race" ->
                  IF RaceOfMapped(out) # Thrown
                  THEN [l EXCEPT !.pc = "done", !.result = out]
                  ELSE AfterRace(l, svc)
             [] legacy.pc = "all" -> AfterRace(l, svc)
             [] OTHER -> l
      /\ UNCHANGED <<engineVars, probe, verdict, call, op, route, page, gen>>

\* The ip-api.com call completes: GET returns its record or the final one.
LegacyFallback(reply) ==
  LET out == ServiceIpApi(legacy.ip, reply) IN
  /\ legacy.pc = "fallback"
  /\ legacy' = [legacy EXCEPT
       !.pc = "done",
       !.result = IF out # NullObj THEN out ELSE FinalRecord(legacy.ip)]
  /\ UNCHANGED <<engineVars, probe, verdict, call, op, route, page, gen>>

NextLegacy ==
  \/ \E req \in Requests : LegacyStart(req)
  \/ \E reply \in RepliesOf(AliceBodies) : AliceSettle(reply)
  \/ \E a \in Primaries :
       \E reply \in PrimaryReplies(a) : ServiceSettle(a, reply)
  \/ \E reply \in RepliesOf(IpApiBodies) : LegacyFallback(reply)

SpecLegacy == InitLegacy /\ [][NextLegacy]_vars

-----------------------------------------------------------------------------
(* The header-based route (src/app/api/ip-info/route.ts) *)

\* request.headers.get(...) of the headers the route reads; Null when absent.
RouteRequest(realIp, xff, country, city, region, position) ==
  [realIp |-> realIp, xff |-> xff, country |-> country, city |-> city,
   region |-> region, latitude |-> position[1], longitude |-> position[2],
   timezone |-> position[3]]

\* The requests the platform forwards to the route.
RouteRequests ==
  {RouteRequest(realIp, xff, country, city, region, position) :
     realIp \in {Null, "8.8.8.8"},
     xff \in {Null, "", " 1.1.1.1 , 10.0.0.1"},
     country \in {Null, "", "US", "DE", "XX"},
     city \in {Null, "Berlin"},
     region \in {Null, "BE"},
     position \in {<<Null, Null, Null>>,
                   <<"52.5", "13.4", "Europe/Berlin">>}}

\* Step 1: x-real-ip, else the first field of x-forwarded-for, else 'Unknown'.
ExtractIpRoute(req) ==
  Or(req.realIp,
     Or(IF req.xff \in {Null, Undefined} THEN Undefined
        ELSE Trim(FirstField(req.xff)),
        "Unknown"))

\* Step 2: the geo object, each header `|| undefined`.
Geo(req) ==
  [country   |-> Or(req.country, Undefined),
   city      |-> Or(req.city, Undefined),
   region    |-> Or(req.region, Undefined),
   latitude  |-> Or(req.latitude, Undefined),
   longitude |-> Or(req.longitude, Undefined),
   timezone  |-> Or(req.timezone, Undefined)]

\* Step 3: the table of country names, of which three entries are kept.  The
\* names, in Chinese in the source, are rendered in English.
countryNames ==
  [code \in {"CN", "US", "DE"} |->
     CASE code = "CN" -> "China"
       [] code = "US" -> "United States"
       [] code = "DE" -> "Germany"]

\* countryNames[country] || country
CountryName(country) ==
  IF country \in DOMAIN countryNames THEN Or(countryNames[country], country)
  ELSE country

\* A faulty step 4, which looks at the country after its default was applied.
RouteAccurateOfDefault(geo) == ~Falsy(Or(geo.country, "US"))

\* Step 4: const accurate = !!geo.country
RouteAccurate(geo) == ~Falsy(geo.country)

\* The try block of GET: nothing in it is awaited and nothing is fetched.
RouteTry(req) ==
  LET ip == ExtractIpRoute(req)
      geo == Geo(req)
      country == Or(geo.country, "US")
  IN  [ip          |-> ip,
       country     |-> country,
       countryName |-> CountryName(country),
       city        |-> Or(geo.city, ""),
       region      |-> Or(geo.region, ""),
       accurate    |-> RouteAccurate(geo),
       latitude    |-> Or(geo.latitude, Null),
       longitude   |-> Or(geo.longitude, Null),
       timezone    |-> Or(geo.timezone, Null)]

\* The record of the catch block.
RouteCatch ==
  [ip |-> "Unknown", country |-> "US", countryName |-> "unknown",
   city |-> "", region |-> "", accurate |-> FALSE]

\* GET of the route.
RouteGET(req) ==
  LET attempt == RouteTry(req)
  IN  IF attempt = Thrown THEN RouteCatch ELSE attempt

InitRoute ==
  /\ engine = "lru"
  /\ profile = "burst"
  /\ now = 0
  /\ cache = <<>>
  /\ inflight = [ip \in Addresses |-> 0]
  /\ lk = [l \in Lookups |-> IdleLookup]
  /\ res = [l \in Lookups |-> NoResolution]
  /\ recency = <<>>
  /\ evicted = {}
  /\ fresh = [ip \in Addresses |-> NullObj]
  /\ failed = {}
  /\ op = NoOp
  /\ probe = ""
  /\ verdict = NullObj
  /\ call = NoCall
  /\ SideIdle

\* One invocation of GET, from the request to the response.
RouteGet(req) ==
  /\ route' = [pc |-> "done", req |-> req, result |-> RouteGET(req)]
  /\ UNCHANGED <<engineVars, probe, verdict, call, op, legacy, page, gen>>

NextRoute == \E req \in RouteRequests : RouteGet(req)

SpecRoute == InitRoute /\ [][NextRoute]_vars

-----------------------------------------------------------------------------
(* The page (src/app/page.tsx): the initializeApp effect *)

\* getCountryConfig(code): countries.find(c => c.code === code) || countries[0]
getCountryConfig(code) ==
  IF \E i \in 1..Len(countries) : countries[i] = code THEN code
  ELSE countries[1]

\* What /api/ip-info may answer with, once parsed: records of the route with
\* and without a country, a record without its fields, and JSON null.
PageBodies ==
  {[ip |-> ip, country |-> country, accurate |-> accurate] :
     ip \in {Undefined, "8.8.8.8"},
     country \in {Undefined, "", "US", "DE", "XX"},
     accurate \in BOOLEAN}
    \cup {NullObj}

\* What the fetch of /api/ip-info comes to: it rejects, or resolves with a
\* response whose body is not JSON, or with a response whose body parses.
PageReplies ==
  {Reply("network_error", NullObj), Reply("bad_json", NullObj)}
    \cup {Reply("ok", b) : b \in PageBodies}

\* A faulty catch block, which leaves the page uninitialized.
PageCatchSilent(p) == [p EXCEPT !.pc = "done"]

\* The catch block of initializeApp.  The text shown for the address, in
\* Chinese in the source, is rendered in English.
PageCatch(p) ==
  IF p.isMounted
  THEN [p EXCEPT !.pc = "done",
                 !.ipInfo = [ip |-> "detection failed", country |-> "US"],
                 !.isInitialized = TRUE]
  ELSE [p EXCEPT !.pc = "done"]

\* if (data.country && data.accurate)
PageSelects(data) == ~Falsy(data.country) /\ data.accurate

\* The try block of initializeApp from the parsed body on.
PageApply(p, data) ==
  IF ~p.isMounted THEN [p EXCEPT !.pc = "done", !.data = data]
  ELSE IF data = NullObj THEN PageCatch([p EXCEPT !.data = data])
  ELSE LET q == [p EXCEPT
                   !.pc = "done", !.data = data,
                   !.ipInfo = [ip |-> Or(data.ip, "unknown"),
                               country |-> Or(data.country, "US")],
                   !.isInitialized = TRUE]
       IN  IF PageSelects(data)
           THEN [q EXCEPT !.selectedCountry = getCountryConfig(data.country),
                          !.selections = @ + 1]
           ELSE q

InitPage ==
  /\ engine = "lru"
  /\ profile = "burst"
  /\ now = 0
  /\ cache = <<>>
  /\ inflight = [ip \in Addresses |-> 0]
  /\ lk = [l \in Lookups |-> IdleLookup]
  /\ res = [l \in Lookups |-> NoResolution]
  /\ recency = <<>>
  /\ evicted = {}
  /\ fresh = [ip \in Addresses |-> NullObj]
  /\ failed = {}
  /\ op = NoOp
  /\ probe = ""
  /\ verdict = NullObj
  /\ call = NoCall
  /\ SideIdle

\* The component mounts: the effect runs and the request is sent.
Mount ==
  /\ page.pc = "idle"
  /\ page' = [page EXCEPT !.pc = "fetch", !.isMounted = TRUE]
  /\ UNCHANGED <<engineVars, probe, verdict, call, op, legacy, route, gen>>

\* The component unmounts: the cleanup of the effect runs.
Unmount ==
  /\ page.isMounted
  /\ page' = [page EXCEPT !.isMounted = FALSE]
  /\ UNCHANGED <<engineVars, probe, verdict, call, op, legacy, route, gen>>

\* `await fetch('/api/ip-info')` settles.
PageFetchSettle(reply) ==
  /\ page.pc = "fetch"
  /\ page' = IF reply.kind = "network_error" THEN PageCatch(page)
             ELSE [page EXCEPT !.pc = "json", !.response = reply]
  /\ UNCHANGED <<engineVars, probe, verdict, call, op, legacy, route, gen>>

\* `await response.json()` settles, and initializeApp runs to its end.
PageJsonSettle ==
  /\ page.pc = "json"
  /\ page' = IF ResponseJson(page.response) = Thrown THEN PageCatch(page)
             ELSE PageApply(page, ResponseJson(page.response))
  /\ UNCHANGED <<engineVars, probe, verdict, call, op, legacy, route, gen>>

NextPage ==
  \/ Mount
  \/ Unmount
  \/ \E reply \in PageReplies : PageFetchSettle(reply)
  \/ PageJsonSettle

\* The request completes and the body is read: neither await hangs for ever.
FairnessPage ==
  /\ WF_vars(\E reply \in PageReplies : PageFetchSettle(reply))
  /\ WF_vars(PageJsonSettle)

SpecPage == InitPage /\ [][NextPage]_vars /\ FairnessPage

-----------------------------------------------------------------------------
(* The generators (src/lib/generator.ts) *)

LATIN_CHARS == "abcdefghijklmnopqrstuvwxyz"

UpperChars == "ABCDEFGHIJKLMNOPQRSTUVWXYZ"

DigitChars == "0123456789"

\* COMMON_WORDS, of which one word of each length is kept.
COMMON_WORDS == <<"sun", "love", "super", "strong", "thunder", "princess">>

\* An element of a Uint32Array, as its two 16-bit halves.
Uint32(hi, lo) == [hi |-> hi, lo |-> lo]

\* A small value of a Uint32Array element, and the largest one, 2^32 - 1.
Small(n) == Uint32(0, n)

MaxUint32 == Uint32(65535, 65535)

\* randomBuffer[0] % range
Uint32Mod(raw, range) ==
  (((raw.hi % range) * (65536 % range)) + (raw.lo % range)) % range

\* The values of Math.random(), in hundredths.
Hundredths == 0..99

\* fastRandom(min, max) when Math.random() returned p hundredths.
fastRandom(min, max, p) == ((p * (max - min + 1)) \div 100) + min

\* secureRandom(min, max) when the buffer was filled with raw.
secureRandom(min, max, raw) == min + Uint32Mod(raw, max - min + 1)

Max(a, b) == IF a > b THEN a ELSE b

Min(a, b) == IF a < b THEN a ELSE b

\* Number.prototype.toString of a natural number.
RECURSIVE NumToString(_)
NumToString(n) ==
  IF n < 10 THEN SubSeq(DigitChars, n + 1, n + 1)
  ELSE NumToString(n \div 10) \o SubSeq(DigitChars, (n % 10) + 1, (n % 10) + 1)

\* toUpperCase and toLowerCase of one character.
UpperOf(c) ==
  LET i == IndexFrom(LATIN_CHARS, c, 1)
  IN  IF i = 0 THEN c ELSE SubSeq(UpperChars, i, i)

LowerOf(c) ==
  LET i == IndexFrom(UpperChars, c, 1)
  IN  IF i = 0 THEN c ELSE SubSeq(LATIN_CHARS, i, i)

RECURSIVE UpperFrom(_, _)
UpperFrom(s, i) ==
  IF i > Len(s) THEN "" ELSE UpperOf(SubSeq(s, i, i)) \o UpperFrom(s, i + 1)

RECURSIVE LowerFrom(_, _)
LowerFrom(s, i) ==
  IF i > Len(s) THEN "" ELSE LowerOf(SubSeq(s, i, i)) \o LowerFrom(s, i + 1)

toUpperCase(s) == UpperFrom(s, 1)

toLowerCase(s) == LowerFrom(s, 1)

\* s.substring(0, n) and s.slice(0, n) for 0 <= n
Prefix(s, n) == SubSeq(s, 1, Min(n, Len(s)))

\* The while loop of generatePassword: digits are appended until the
\* password has the target length; draw i fills the buffer of iteration i.
RECURSIVE AppendDigits(_, _, _, _)
AppendDigits(password, targetLength, digits, i) ==
  IF Len(password) < targetLength
  THEN AppendDigits(password \o NumToString(secureRandom(0, 9, digits[i])),
                    targetLength, digits, i + 1)
  ELSE password

\* A faulty generatePassword bound, which lets the word fill the password.
MaxWordLenWhole(targetLength, numLength) == targetLength

\* const maxWordLen = targetLength - numLength
MaxWordLen(targetLength, numLength) == targetLength - numLength

\* generatePassword() under the draws d; the target length drawn is returned
\* along with the password.
generatePassword(d) ==
  LET targetLength == secureRandom(6, 8, d.target)
      word0 == COMMON_WORDS[secureRandom(0, Len(COMMON_WORDS) - 1, d.word) + 1]
      numLength == secureRandom(1, Max(2, targetLength - 3), d.num)
      maxWordLen == MaxWordLen(targetLength, numLength)
      word1 == IF Len(word0) > maxWordLen THEN Prefix(word0, maxWordLen)
               ELSE word0
      word == IF d.caseRand < 60
              THEN toUpperCase(SubSeq(word1, 1, 1))
                     \o toLowerCase(SubSeq(word1, 2, Len(word1)))
              ELSE IF d.caseRand < 90 THEN toLowerCase(word1)
              ELSE toUpperCase(word1)
      password == AppendDigits(word, targetLength, d.digits, 1)
  IN  [targetLength |-> targetLength,
       password |-> IF Len(password) > targetLength
                    THEN Prefix(password, targetLength) ELSE password]

\* The draws of one call of generatePassword.
PasswordDraws ==
  [target : {Small(0), Small(1), Small(2), MaxUint32},
   word : {Small(0), Small(1), Small(2), Small(4), Small(5), MaxUint32},
   num : {Small(0), Small(1), Small(2), Small(3), Small(4)},
   caseRand : {0, 59, 60, 89, 90, 99},
   digits : {<<Small(0), Small(0), Small(0), Small(0), Small(0)>>,
             <<Small(7), MaxUint32, Small(3), Small(1), Small(2)>>}]

\* The list DOMAINS of '@/lib/domains', of which two entries are kept.
DOMAINS == <<"gmail.com", "outlook.com">>

\* Names are written with letters, digits and four more characters: "~" is
\* a precomposed accented letter (e with acute accent), "^" the combining
\* acute accent U+0301, "#" a character of a non-Latin script, and "-" a
\* hyphen.

\* The element of a singleton set. An intermediate result of a function is
\* named by binding it in a singleton set, which evaluates it once.
The(S) == CHOOSE x \in S : TRUE

\* str.normalize("NFD"): a precomposed letter becomes the base letter
\* followed by the combining mark.
RECURSIVE NFDFrom(_, _)
NFDFrom(str, i) ==
  IF i > Len(str) THEN ""
  ELSE (IF SubSeq(str, i, i) = "~" THEN "e^" ELSE SubSeq(str, i, i))
         \o NFDFrom(str, i + 1)

normalizeNFD(str) == NFDFrom(str, 1)

\* A regular expression that is one character class, negated or not.
CharClass(negated, class) == [negated |-> negated, class |-> class]

\* The character c matches the regular expression re.
Matches(re, c) == Includes(re.class, c) # re.negated

\* str.replace(re, "") for a global regular expression re
RECURSIVE ReplaceFrom(_, _, _)
ReplaceFrom(str, re, i) ==
  IF i > Len(str) THEN ""
  ELSE (IF Matches(re, SubSeq(str, i, i)) THEN "" ELSE SubSeq(str, i, i))
         \o ReplaceFrom(str, re, i + 1)

ReplaceAll(str, re) == ReplaceFrom(str, re, 1)

\* NORMALIZE_REGEX = /[\u0300-\u036f]/g: the combining marks
NORMALIZE_REGEX == CharClass(FALSE, "^")

\* ASCII_REGEX = /[^a-zA-Z0-9]/g
ASCII_REGEX == CharClass(TRUE, LATIN_CHARS \o UpperChars \o DigitChars)

\* The loop of convertToLatinChars: five letters drawn from LATIN_CHARS.
RECURSIVE RandomLetters(_, _)
RandomLetters(letters, i) ==
  IF i > 5 THEN ""
  ELSE LET at == fastRandom(0, Len(LATIN_CHARS) - 1, letters[i]) + 1
       IN  SubSeq(LATIN_CHARS, at, at) \o RandomLetters(letters, i + 1)

\* convertToLatinChars(str); letters are the draws of its loop.
convertToLatinChars(str, letters) ==
  The({ IF Len(ascii) = 0 THEN RandomLetters(letters, 1)
        ELSE toLowerCase(ascii) :
          ascii \in { ReplaceAll(normalized, ASCII_REGEX) :
            normalized \in { ReplaceAll(nfd, NORMALIZE_REGEX) :
              nfd \in {normalizeNFD(str)} } } })

\* randomDigits(length): n decimal digits, the draws taken from digits
\* starting at position i.
RECURSIVE randomDigits(_, _, _)
randomDigits(n, digits, i) ==
  IF n <= 0 THEN ""
  ELSE NumToString(fastRandom(0, 9, digits[i]))
         \o randomDigits(n - 1, digits, i + 1)

MAX_LEN == 11

\* if (first.length > 6) first = first.slice(0, Math.max(4, fastRandom(4, 6)))
CutName(name, p) ==
  IF Len(name) > 6 THEN Prefix(name, Max(4, fastRandom(4, 6, p))) ELSE name

\* The username that the pattern drawn builds from the two names.
Pattern(first, last, patternRand) ==
  IF patternRand < 40 THEN first
  ELSE IF patternRand < 65 THEN Prefix(first, 1) \o last
  ELSE IF patternRand < 80 THEN first \o Prefix(last, 1)
  ELSE IF patternRand < 95
       THEN (IF Len(first) + Len(last) < 9 THEN first \o last ELSE first)
  ELSE last \o Prefix(first, 1)

\* if (username.length > MAX_LEN) username = username.slice(0, MAX_LEN)
CutUsername(username) ==
  IF Len(username) > MAX_LEN THEN Prefix(username, MAX_LEN) ELSE username

\* The digits or the year appended where room is left.
AppendNumber(username, d) ==
  LET remainingSpace == MAX_LEN - Len(username)
      lenToGenerate == Min(remainingSpace, fastRandom(2, 4, d.len))
  IN  IF remainingSpace >= 2 /\ (d.appendRand < 70 \/ Len(username) < 5)
      THEN IF lenToGenerate = 4
           THEN username \o NumToString(fastRandom(1985, 2025, d.year))
           ELSE username \o randomDigits(lenToGenerate, d.digits, 1)
      ELSE username

\* A faulty padding loop, which leaves the username as it is.
PadUsernameNone(username, pad) == username

\* while (username.length < 6) username += fastRandom(0, 9)
PadUsername(username, pad) ==
  username \o randomDigits(6 - Len(username), pad, 1)

\* generateEmail(firstName, lastName, customDomain) under the draws d.
generateEmail(a, d) ==
  LET domain == Or(a.customDomain,
                   DOMAINS[fastRandom(0, Len(DOMAINS) - 1, d.domain) + 1])
  IN  The({ PadUsername(username, d.pad) \o "@" \o domain :
        username \in { CutUsername(appended) :
          appended \in { AppendNumber(cut, d) :
            cut \in { CutUsername(pattern) :
              pattern \in { Pattern(first, last, d.patternRand) :
                first \in { CutName(first0, d.sliceFirst) :
                  first0 \in {convertToLatinChars(a.firstName,
                                                  d.lettersFirst)} },
                last \in { CutName(last0, d.sliceLast) :
                  last0 \in {convertToLatinChars(a.lastName,
                                                 d.lettersLast)} } } } } } })

\* The arguments of one call of generateEmail: names that are empty, short,
\* long, accented, hyphenated and without any Latin character, and a custom
\* domain that is left out, empty or given.
EmailArgs ==
  [firstName : {"", "Jos~", "###", "Maximilian", "Anna-Maria"},
   lastName : {"", "Ng", "##", "Featherstone", "O-Neil9"},
   customDomain : {"corp.example"}]
  \cup
  [firstName : {"Zoe^"},
   lastName : {"Garcia"},
   customDomain : {Undefined, ""}]

\* The draws of one call of generateEmail.
EmailDraws ==
  [domain : {0, 99},
   lettersFirst : {<<0, 99, 50, 4, 12>>},
   lettersLast : {<<31, 8, 99, 0, 77>>},
   sliceFirst : {0, 99},
   sliceLast : {50, 99},
   patternRand : {0, 39, 40, 65, 80, 94, 95},
   appendRand : {69, 70},
   len : {0, 50, 99},
   year : {0, 99},
   digits : {<<0, 55, 99>>},
   pad : {<<99, 0, 31, 45, 59, 26>>}]

DAYS_IN_MONTH_BASE == <<31, 28, 31, 30, 31, 30, 31, 31, 30, 31, 30, 31>>

SUSPICIOUS_DAYS == {1, 15, 31}

\* A faulty leap-year test, which leaves out the rule of the centuries.
LeapTestEveryFourth(birthYear) == birthYear % 4 = 0

\* birthYear % 4 === 0 && (birthYear % 100 !== 0 || birthYear % 400 === 0)
LeapTest(birthYear) ==
  birthYear % 4 = 0 /\ (birthYear % 100 # 0 \/ birthYear % 400 = 0)

\* month < 10 ? '0' + month : month, as it is interpolated into the result
ZeroPadded(n) == IF n < 10 THEN "0" \o NumToString(n) ELSE NumToString(n)

\* generateBirthday() in the year currentYear under the draws d.
generateBirthday(currentYear, d) ==
  LET age == IF d.rand < 20 THEN fastRandom(18, 19, d.age)
             ELSE IF d.rand < 45 THEN fastRandom(20, 21, d.age)
             ELSE IF d.rand < 75 THEN fastRandom(22, 23, d.age)
             ELSE fastRandom(24, 25, d.age)
      birthYear == currentYear - age
      month == fastRandom(1, 12, d.month)
      maxDays == IF month = 2 /\ LeapTest(birthYear) THEN 29
                 ELSE DAYS_IN_MONTH_BASE[month]
      day0 == fastRandom(1, maxDays, d.day)
      day == IF day0 \in SUSPICIOUS_DAYS /\ d.again < 60
             THEN fastRandom(1, maxDays, d.redraw)
             ELSE day0
  IN  NumToString(birthYear) \o "-" \o ZeroPadded(month)
        \o "-" \o ZeroPadded(day)

\* The years in which generateBirthday is called: the birth years include
\* ordinary leap years, the century 2100 and the leap century 2400.
CurrentYears == {2026, 2119, 2423}

\* The draws of one call of generateBirthday.
BirthdayDraws ==
  [rand : {0, 19, 20, 44, 45, 74, 75, 99},
   age : {0, 99},
   month : {0, 9, 17, 25, 34, 42, 50, 59, 67, 75, 84, 92},
   day : {0, 47, 93, 99},
   again : {59, 60},
   redraw : {0, 99}]

InitGenerator ==
  /\ engine = "lru"
  /\ profile = "burst"
  /\ now = 0
  /\ cache = <<>>
  /\ inflight = [ip \in Addresses |-> 0]
  /\ lk = [l \in Lookups |-> IdleLookup]
  /\ res = [l \in Lookups |-> NoResolution]
  /\ recency = <<>>
  /\ evicted = {}
  /\ fresh = [ip \in Addresses |-> NullObj]
  /\ failed = {}
  /\ op = NoOp
  /\ probe = ""
  /\ verdict = NullObj
  /\ call = NoCall
  /\ SideIdle

\* One call of generatePassword.
GeneratePassword(d) ==
  /\ gen.fn = "none"
  /\ gen' = [fn |-> "generatePassword", args |-> NullObj, draws |-> d,
             out |-> generatePassword(d)]
  /\ UNCHANGED <<engineVars, probe, verdict, call, op, legacy, route, page>>

\* One call of generateEmail.
GenerateEmail(a, d) ==
  /\ gen.fn = "none"
  /\ gen' = [fn |-> "generateEmail", args |-> a, draws |-> d,
             out |-> generateEmail(a, d)]
  /\ UNCHANGED <<engineVars, probe, verdict, call, op, legacy, route, page>>

\* One call of generateBirthday.
GenerateBirthday(currentYear, d) ==
  /\ gen.fn = "none"
  /\ gen' = [fn |-> "generateBirthday", args |-> [currentYear |-> currentYear],
             draws |-> d, out |-> generateBirthday(currentYear, d)]
  /\ UNCHANGED <<engineVars, probe, verdict, call, op, legacy, route, page>>

NextGenerator ==
  \/ \E y \in CurrentYears : \E d \in BirthdayDraws : GenerateBirthday(y, d)
  \/ \E d \in PasswordDraws : GeneratePassword(d)
  \/ \E a \in EmailArgs : \E d \in EmailDraws : GenerateEmail(a, d)

SpecGenerator == InitGenerator /\ [][NextGenerator]_vars

-----------------------------------------------------------------------------
(* Claims *)

\* Lookup l is invoked in this step.
Starts(l) == lk[l].pc = "idle" /\ lk'[l].pc # "idle"

\* The lookups that went to the network, alone or by joining.
Resolving == {l \in Lookups : lk[l].via \in {"fresh", "joined"}}

\* The lookups that wait for a resolution of ip.
Waiting(ip) == {l \in Lookups : lk[l].pc = "awaiting" /\ lk[l].ip = ip}

\* The chains built for ip that have not settled.
Unsettled(ip) ==
  {r \in Lookups : res[r].stage \notin {"none", "settled"} /\ res[r].ip = ip}

\* C1: the lookups of one address that start while it has no live cache
\* entry and before the resolution settles all wait for one chain, no other
\* chain for that address exists, and that chain has called each primary
\* adapter exactly once and the fallback adapter at most once.
C1_Deduplication ==
  \A ip \in Addresses :
    /\ Cardinality(Unsettled(ip)) <= 1
    /\ \A l, k \in Waiting(ip) : lk[l].handle = lk[k].handle
    /\ \A l \in Waiting(ip) :
         LET chain == res[lk[l].handle]
         IN  /\ chain.ip = ip
             /\ \A a \in Primaries : chain.calls[a] = 1
             /\ chain.calls["fallback"] <= 1
    /\ \A r \in Unsettled(ip) :
         /\ \A a \in Primaries : res[r].calls[a] = 1
         /\ res[r].calls["fallback"] <= 1

\* Two lookups of one address wait for the same chain, whose primaries have
\* all failed and whose fallback has been called.
C1_Witness ==
  \E ip \in Addresses :
    /\ Cardinality(Waiting(ip)) >= 2
    /\ \E r \in Unsettled(ip) :
         res[r].stage = "fallback" /\ res[r].calls["fallback"] = 1

\* C2: in the LRU engine, a lookup whose address isValidPublicIP rejects
\* returns at once a record with accurate = false and error 'Private or
\* Invalid IP'; it reads neither the cache nor the in-flight map, changes
\* neither, and no chain is built or advanced, so no outbound call is made.
C2_RejectedAddress ==
  [][\A l \in Lookups :
       (engine = "lru" /\ Starts(l) /\ ~isValidPublicIP(lk'[l].ip)) =>
         /\ lk'[l].pc = "done"
         /\ lk'[l].result.accurate = FALSE
         /\ lk'[l].result.error = "Private or Invalid IP"
         /\ lk'[l].reads = {}
         /\ UNCHANGED <<cache, inflight, res>>]_vars

\* A rejected lookup has returned in the LRU engine while another lookup
\* waits for its resolution.
C2_Witness ==
  /\ engine = "lru"
  /\ \E l, k \in Lookups :
       /\ lk[l].pc = "done" /\ lk[l].via = "rejected"
       /\ ~isValidPublicIP(lk[l].ip)
       /\ lk[k].pc = "awaiting"

\* Value of a hexadecimal digit, -1 for any other character.
HexDigit(c) ==
  CASE c = "0" -> 0 [] c = "1" -> 1 [] c = "2" -> 2 [] c = "3" -> 3
    [] c = "4" -> 4 [] c = "5" -> 5 [] c = "6" -> 6 [] c = "7" -> 7
    [] c = "8" -> 8 [] c = "9" -> 9
    [] c \in {"a", "A"} -> 10 [] c \in {"b", "B"} -> 11
    [] c \in {"c", "C"} -> 12 [] c \in {"d", "D"} -> 13
    [] c \in {"e", "E"} -> 14 [] c \in {"f", "F"} -> 15
    [] OTHER -> -1

\* The 16 bits of the first group of an IPv6 address that writes it with four
\* digits.
FirstGroup(ip) ==
  ((HexDigit(CharAt(ip, 1)) * 16 + HexDigit(CharAt(ip, 2))) * 16
     + HexDigit(CharAt(ip, 3))) * 16 + HexDigit(CharAt(ip, 4))

\* The address lies in the IPv6 block whose first group is base and whose
\* prefix has `bits` bits (bits <= 16).
InBlock6(ip, base, bits) ==
  /\ ip \in V6Probes
  /\ CharAt(ip, 5) = ":"
  /\ FirstGroup(ip) \div 2 ^ (16 - bits) = base \div 2 ^ (16 - bits)

\* Value of a string of decimal digits.
RECURSIVE Decimal(_)
Decimal(s) ==
  IF Len(s) = 0 THEN 0
  ELSE 10 * Decimal(SubSeq(s, 1, Len(s) - 1))
         + HexDigit(SubSeq(s, Len(s), Len(s)))

\* The first and the second octet of a dotted IPv4 address.
Octet1(ip) == Decimal(SubSeq(ip, 1, IndexFrom(ip, ".", 1) - 1))

Octet2(ip) ==
  LET i == IndexFrom(ip, ".", 1)
  IN  Decimal(SubSeq(ip, i + 1, IndexFrom(ip, ".", i + 1) - 1))

\* The ranges C3 names: 10.0.0.0/8, 172.16.0.0/12, 192.168.0.0/16,
\* 127.0.0.0/8, ::1, fe80::/10, fc00::/7.
InNamedRange(ip) ==
  \/ /\ ip \in V4Probes
     /\ \/ Octet1(ip) = 10
        \/ Octet1(ip) = 172 /\ Octet2(ip) \div 16 = 1
        \/ Octet1(ip) = 192 /\ Octet2(ip) = 168
        \/ Octet1(ip) = 127
  \/ ip = "::1"
  \/ InBlock6(ip, 65152, 10)
  \/ InBlock6(ip, 64512, 7)

\* C3: isValidPublicIP answers false for every address of the ranges the
\* claim names, for 'localhost', for absent, empty and placeholder input and
\* for every string with neither '.' nor ':', and true for every other
\* address.  (The LRU engine's validator; refuted by fc00::1 and fe90::1.)
C3_ValidatorAsClaimed ==
  (verdict # NullObj /\ verdict.by = "lru") =>
    (verdict.valid <=>
       (probe \in V4Probes \cup V6Probes /\ ~InNamedRange(probe)))

\* C4: while a chain has a primary pending and no primary has succeeded it is
\* still racing, however many primaries have failed; the fallback is reached
\* only once all three have failed; and once a primary has succeeded the
\* chain yields that success and never the fallback or a failure.
C4_NoFailFast ==
  \A r \in Lookups :
    LET chain == res[r] IN
    /\ ( /\ chain.stage # "none"
         /\ \A a \in Primaries : chain.prim[a] \in {"pending", "fail"}
         /\ \E a \in Primaries : chain.prim[a] = "pending" )
       => chain.stage = "racing"
    /\ chain.stage \in {"catch", "fallback"}
       => \A a \in Primaries : chain.prim[a] = "fail"
    /\ chain.first # "none"
       => /\ chain.fb = "idle"
          /\ chain.stage \in {"then", "finally", "settled"}
          /\ chain.outcome # "rejected"
          /\ chain.value # NullObj /\ chain.value.source = chain.first

\* A primary failed, another then succeeded and the third is pending: the
\* chain carries the success.
C4_Witness ==
  \E r \in Lookups : \E a, b, c \in Primaries :
    /\ res[r].stage = "then"
    /\ res[r].prim[a] = "fail"
    /\ res[r].prim[b] = "ok"
    /\ res[r].prim[c] = "pending"
    /\ res[r].value.source = b

\* C5: a lookup that was not served from the cache and in whose resolution a
\* primary adapter succeeded returns a record with accurate = true whose
\* source is the primary whose success completed first.
C5_FirstSuccessReturned ==
  \A l \in Resolving :
    (lk[l].pc = "done" /\ res[lk[l].handle].first # "none") =>
      /\ lk[l].result.accurate = TRUE
      /\ lk[l].result.source = res[lk[l].handle].first

\* A lookup has returned the record of ipwhois, which succeeded after another
\* primary failed, and a lookup that joined it has returned the same source.
C5_Witness ==
  \E l, k \in Resolving :
    /\ l # k
    /\ lk[l].pc = "done" /\ lk[k].pc = "done"
    /\ lk[k].handle = lk[l].handle
    /\ res[lk[l].handle].first = "ipwhois"
    /\ lk[l].result.source = "ipwhois" /\ lk[k].result.source = "ipwhois"

\* The identifier the fallback adapter of engine e writes in its records.
FallbackSource(e) == IF e = "lru" THEN "freeipapi" ELSE "ip-api"

\* C6: a lookup in whose resolution the fallback adapter succeeded (all three
\* primaries having failed) returns the fallback's record: accurate = true
\* and the fallback's identifier, no primary's, as source.
C6_FallbackReturned ==
  \A l \in Resolving :
    (lk[l].pc = "done" /\ res[lk[l].handle].fb = "ok") =>
      /\ res[lk[l].handle].first = "none"
      /\ lk[l].result = res[lk[l].handle].value
      /\ lk[l].result.accurate = TRUE
      /\ lk[l].result.source = FallbackSource(engine)
      /\ lk[l].result.source \notin Primaries

\* A lookup of the LRU engine has returned the record of freeipapi.
C6_Witness ==
  \E l \in Resolving :
    /\ engine = "lru"
    /\ lk[l].pc = "done"
    /\ res[lk[l].handle].fb = "ok"
    /\ lk[l].result.source = "freeipapi"

\* C7: when the three primaries and the fallback have failed, every lookup
\* that waited for the resolution returns a record (the handler does not
\* throw) with accurate = false, a non-empty error and country 'US', and
\* none is left waiting once the promise reactions have run.
C7_DegradedRecord ==
  \A l \in Resolving :
    res[lk[l].handle].outcome = "rejected" =>
      /\ res[lk[l].handle].fb = "fail"
      /\ lk[l].pc = "done" =>
           /\ lk[l].result # Thrown
           /\ lk[l].result.accurate = FALSE
           /\ ~Falsy(lk[l].result.error)
           /\ lk[l].result.country = "US"
      /\ MicrotasksIdle /\ res[lk[l].handle].stage = "settled"
           => lk[l].pc = "done"

\* Under either engine two lookups have returned the degraded record of one
\* resolution.
C7_Witness ==
  \E l, k \in Resolving :
    /\ l # k
    /\ lk[k].handle = lk[l].handle
    /\ res[lk[l].handle].outcome = "rejected"
    /\ lk[l].pc = "done" /\ lk[k].pc = "done"
    /\ lk[k].result = lk[l].result
    /\ lk[l].result.accurate = FALSE

\* Lookup l starts in this step for an address for which a lookup returned a
\* provider's record less than a time to live ago.
StartsWithinWindow(l) ==
  /\ Starts(l)
  /\ ValidIp(engine, lk'[l].ip)
  /\ fresh[lk'[l].ip] # NullObj
  /\ now < fresh[lk'[l].ip].at + TimeToLive(engine)

\* Lookup l returns in this step the record of the earlier lookup, its source
\* annotated as served from the cache.
ReturnsAnnotated(l) ==
  /\ lk'[l].pc = "done"
  /\ lk'[l].result = CacheHitRecord(fresh[lk'[l].ip].rec)
  /\ lk'[l].result.source = fresh[lk'[l].ip].rec.source \o " (cache)"

\* C8 as claimed: a lookup that starts within the time to live of an earlier
\* successful lookup of the same address returns that lookup's record with
\* the cache annotation, whatever lookups ran in between.
C8_IdempotentAsClaimed ==
  [][\A l \in Lookups : StartsWithinWindow(l) => ReturnsAnnotated(l)]_vars

\* C8, amended: the same, provided the cache entry written for the earlier
\* lookup has not been evicted to make room in between.
C8_IdempotentUnlessEvicted ==
  [][\A l \in Lookups :
       (StartsWithinWindow(l) /\ ~fresh[lk'[l].ip].evicted)
         => ReturnsAnnotated(l)]_vars

\* A lookup has been served from the cache the record an earlier lookup
\* returned, after a lookup of another address was resolved and cached.
C8_Witness ==
  \E l \in Lookups :
    /\ lk[l].pc = "done" /\ lk[l].via = "hit"
    /\ fresh[lk[l].ip] # NullObj
    /\ ~fresh[lk[l].ip].evicted
    /\ lk[l].result = CacheHitRecord(fresh[lk[l].ip].rec)
    /\ \E other \in CacheKeys(cache) \ {lk[l].ip} : fresh[other] # NullObj

\* Position of key in the history of uses.
RECURSIVE Rank(_, _)
Rank(seq, key) ==
  IF seq = <<>> THEN 0
  ELSE IF seq[Len(seq)] = key THEN Len(seq)
  ELSE Rank(SubSeq(seq, 1, Len(seq) - 1), key)

\* Of the keys of cache c, key is the one whose last put or successful get
\* is the oldest.
LeastRecentlyUsed(c, key) ==
  \A other \in CacheKeys(c) \ {key} : Rank(recency, key) < Rank(recency, other)

\* Chain r writes its record to the cache in this step.
Writes(r) == res[r].stage = "then" /\ res'[r].stage = "finally"

\* C9: in the LRU engine, when the cache holds maxEntries entries and a key
\* it does not hold is put, exactly one entry leaves, the least recently used
\* one, and the others stay; a later lookup of an evicted address does not
\* hit the cache: it builds a chain and calls the three primaries.
C9_Eviction ==
  [][engine = "lru" =>
       /\ \A r \in Lookups :
            (Writes(r) /\ Len(cache) = maxEntries
               /\ ~CacheHas(cache, res[r].ip)) =>
              LET gone == CacheKeys(cache) \ CacheKeys(cache')
              IN  /\ Cardinality(gone) = 1
                  /\ \A k \in gone : LeastRecentlyUsed(cache, k)
                  /\ CacheKeys(cache') =
                       (CacheKeys(cache) \ gone) \cup {res[r].ip}
                  /\ Len(cache') = maxEntries
       /\ \A l \in Lookups :
            (Starts(l) /\ lk'[l].ip \in evicted) =>
              /\ lk'[l].via = "fresh"
              /\ res'[l].stage = "racing"
              /\ \A a \in Primaries :
                   res'[l].calls[a] = 1 /\ res'[l].prim[a] = "pending"]_vars

\* In the LRU engine a lookup resolves afresh an address whose entry was
\* evicted from the full cache within its time to live; the entry it was
\* evicted for is in the cache.
C9_Witness ==
  /\ engine = "lru"
  /\ Len(cache) = maxEntries
  /\ \E l \in Lookups :
       /\ lk[l].pc = "awaiting" /\ lk[l].via = "fresh"
       /\ ~CacheHas(cache, lk[l].ip)
       /\ fresh[lk[l].ip] # NullObj
       /\ fresh[lk[l].ip].evicted

\* C10 as claimed: in the LRU engine, a lookup whose address has a cache
\* entry is served the stored value if now < expiresAt; if now >= expiresAt
\* (now = expiresAt included) get returns nothing, so the lookup is not
\* served from the cache, and the entry is removed.
C10_GetAsClaimed ==
  [][\A l \in Lookups :
       (engine = "lru" /\ Starts(l) /\ isValidPublicIP(lk'[l].ip)
          /\ CacheHas(cache, lk'[l].ip)) =>
         LET entry == CacheEntry(cache, lk'[l].ip)
         IN  IF now < entry.expiresAt
             THEN /\ lk'[l].via = "hit"
                  /\ lk'[l].result = CacheHitRecord(entry.value)
             ELSE /\ lk'[l].via # "hit"
                  /\ entry \notin {cache'[i] : i \in 1..Len(cache')}]_vars

\* The keys of cache c in the order in which capacity eviction would take
\* them.
EvictionOrder(c) == [i \in 1..Len(c) |-> c[i].key]

\* Lookup l is served from the cache in this step.
Hits(l) == Starts(l) /\ lk'[l].via = "hit"

\* C11: in the LRU engine, a successful get of key leaves the entries as they
\* were and moves key behind every other key in the order of eviction: it is
\* not the next victim unless it is alone, the other keys keep their order,
\* and the order of eviction is the order of last use (put or successful
\* get) of the keys present.
C11_GetRefreshesRecency ==
  [][engine = "lru" =>
       \A l \in Lookups :
         Hits(l) =>
           LET key == lk'[l].ip IN
           /\ CacheHas(cache, key)
           /\ cache'[Len(cache')].key = key
           /\ CacheEntry(cache', key) = CacheEntry(cache, key)
           /\ EvictionOrder(cache') =
                Touch(EvictionOrder(cache), key)
           /\ Len(cache') > 1 => LRUVictim(cache') # key
           /\ EvictionOrder(cache') =
                SelectSeq(recency', LAMBDA k : CacheHas(cache', k))]_vars

\* In the LRU engine a lookup has been served from a cache of two entries,
\* and the address it read is the last in the order of eviction.
C11_Witness ==
  /\ engine = "lru"
  /\ Len(cache) = maxEntries
  /\ Len(cache) > 1
  /\ \E l \in Lookups :
       /\ lk[l].pc = "done" /\ lk[l].via = "hit"
       /\ cache[Len(cache)].key = lk[l].ip
       /\ LRUVictim(cache) # lk[l].ip

\* C12: in the LRU engine the cache never holds more than maxEntries
\* entries, and no key twice.
C12_CapacityBound ==
  engine = "lru" =>
    /\ Len(cache) <= maxEntries
    /\ Cardinality(CacheKeys(cache)) = Len(cache)

\* The cache of the LRU engine is full after a put that found it full.
C12_Witness ==
  /\ engine = "lru"
  /\ Len(cache) = maxEntries
  /\ evicted # {}

-----------------------------------------------------------------------------
(* The burst workload under the scheduling of the event loop *)

InitLive == Init /\ profile = "burst"

NextLive ==
  \/ \E l \in Lookups, req \in Requests : Start(l, req)
  \/ \E r \in Lookups, a \in Primaries :
       \E out \in PrimaryOutcomes(r, a) : PrimarySettle(r, a, out)
  \/ \E r \in Lookups : CatchHandler(r)
  \/ \E r \in Lookups :
       \E out \in FallbackOutcomes(r) : FallbackSettle(r, out)
  \/ \E r \in Lookups : ThenHandler(r)
  \/ \E r \in Lookups : FinallyHandler(r)
  \/ \E l \in Lookups : Resume(l)
  \/ \E l \in Lookups : Forget(l)

\* A step of the chain built by invocation r, or of that invocation after its
\* await.
Progress(r) ==
  \/ \E a \in Primaries :
       \E out \in PrimaryOutcomes(r, a) : PrimarySettle(r, a, out)
  \/ CatchHandler(r)
  \/ \E out \in FallbackOutcomes(r) : FallbackSettle(r, out)
  \/ ThenHandler(r)
  \/ FinallyHandler(r)
  \/ Resume(r)
  \/ Forget(r)

\* Every provider call completes, by an answer, an error or the abort timer
\* of fetchService, and its completion is a task the event loop eventually
\* runs; a queued promise reaction is eventually run; a response is
\* eventually delivered.  Requests may keep arriving in between, so the
\* steps of one invocation can be held up again and again by those of
\* another: each invocation gets strong fairness.
Fairness == \A r \in Lookups : SF_vars(Progress(r))

SpecLive == InitLive /\ [][NextLive]_vars /\ Fairness

\* C13: every handle registered in the in-flight map is eventually removed,
\* whether its chain fulfils or rejects, and when no started lookup is still
\* waiting the map is empty.
C13_InflightRemoved ==
  /\ \A ip \in Addresses : (inflight[ip] # 0) ~> (inflight[ip] = 0)
  /\ []((\A l \in Lookups : lk[l].pc # "awaiting") =>
          \A ip \in Addresses : inflight[ip] = 0)

\* Two lookups have returned the outcome of a chain that rejected, another
\* chain is in flight, and the address of the first is no longer in the map.
C13_Witness ==
  \E l \in Resolving :
    /\ lk[l].pc = "done"
    /\ res[lk[l].handle].outcome = "rejected"
    /\ inflight[lk[l].ip] = 0
    /\ \E ip \in Addresses : inflight[ip] # 0

-----------------------------------------------------------------------------
(* C14 *)

\* Lookup l finds a registered promise and waits for it.
Joins(l) == Starts(l) /\ lk'[l].via = "joined"

\* The outcome of chain r has been delivered to a lookup that waited for it.
Delivered(r) == \E l \in Lookups : lk[l].pc = "done" /\ lk[l].handle = r

\* C14: the in-flight map never holds a promise that has settled or whose
\* outcome a waiter has received; a lookup that finds a promise in the map
\* finds one whose chain has not produced its outcome; and once a chain has
\* produced its outcome the very next step removes it from the map.
C14_NoSettledHandle ==
  /\ [](\A ip \in Addresses :
          LET r == inflight[ip] IN
          r # 0 => /\ res[r].ip = ip
                   /\ res[r].stage \notin {"none", "settled"}
                   /\ ~Delivered(r))
  /\ [][/\ \A l \in Lookups :
             Joins(l) =>
               LET r == lk'[l].handle IN
               /\ r = inflight[lk'[l].ip]
               /\ res[r].outcome = "pending"
               /\ res[r].stage \in {"racing", "fallback"}
        /\ \A r \in Lookups :
             res[r].outcome # "pending" /\ inflight[res[r].ip] = r =>
               /\ res'[r].stage = "settled"
               /\ inflight'[res[r].ip] = 0]_vars

\* A chain that a second lookup joined has produced its outcome and is about
\* to leave the map.
C14_Witness ==
  \E l \in Lookups :
    /\ lk[l].pc = "awaiting"
    /\ lk[l].via = "joined"
    /\ inflight[lk[l].ip] = lk[l].handle
    /\ res[lk[l].handle].stage = "finally"
    /\ res[lk[l].handle].outcome # "pending"

-----------------------------------------------------------------------------
(* C15 *)

\* The lookups that wait or waited for chain r.
Sharers(r) ==
  {l \in Lookups : lk[l].pc \in {"awaiting", "done"} /\ lk[l].handle = r}

\* The record every lookup that awaits chain r returns when r rejects.
Degraded(r) ==
  IF engine = "lru" THEN DegradedRecord(res[r].ip)
  ELSE DegradedRecordM(res[r].ip)

\* C15: the lookups that awaited one promise have all returned the same
\* record, the record of the provider when the chain fulfilled and the
\* degraded record when it rejected; each is resumed once, in that it is
\* queued once on the promise while it waits, not at all after it returned,
\* and what it returned does not change afterwards.
C15_SameOutcomeOnce ==
  /\ [](\A r \in Lookups :
          /\ \A l \in Sharers(r) :
               /\ lk[l].ip = res[r].ip
               /\ lk[l].pc = "done" =>
                    /\ res[r].stage = "settled"
                    /\ res[r].outcome = "fulfilled" =>
                         lk[l].result = res[r].value /\ lk[l].result.accurate
                    /\ res[r].outcome = "rejected" =>
                         lk[l].result = Degraded(r) /\ ~lk[l].result.accurate
                    /\ \A k \in Sharers(r) :
                         lk[k].pc = "done" => lk[k].result = lk[l].result
               /\ Cardinality({i \in 1..Len(res[r].waiters) :
                                 res[r].waiters[i] = l})
                    = IF lk[l].pc = "awaiting" THEN 1 ELSE 0
          /\ \A i \in 1..Len(res[r].waiters) : res[r].waiters[i] \in Sharers(r))
  /\ [][\A l \in Lookups :
          lk[l].pc = "done" /\ lk'[l].pc # "idle" => lk'[l] = lk[l]]_vars

\* Two lookups that awaited one promise have both returned the record of
\* the provider.
C15_Witness ==
  \E l, k \in Lookups :
    /\ l # k
    /\ lk[l].via = "fresh" /\ lk[k].via = "joined"
    /\ lk[k].handle = l /\ lk[l].handle = l
    /\ lk[l].pc = "done" /\ lk[k].pc = "done"
    /\ res[l].outcome = "fulfilled"
    /\ lk[k].result = res[l].value
    /\ lk[l].result = res[l].value

-----------------------------------------------------------------------------
(* C16 *)

\* Chain r is built in this step: its primary calls are issued.
Launches(r) == res[r].stage = "none" /\ res'[r].stage # "none"

\* The outbound calls issued so far, per chain and provider.
Calls == [r \in Lookups |-> res[r].calls]

\* C16: in both engines a lookup of a valid address reads the cache; only on
\* a miss does it read the in-flight map; only when that misses too does it
\* issue outbound calls, and it registers its promise in the same step, in
\* which no other lookup moves.  Conversely calls are issued only by a lookup
\* that missed both.
C16_StepOrder ==
  [][/\ \A l \in Lookups :
          Starts(l) /\ ValidIp(engine, lk'[l].ip) =>
            LET ip == lk'[l].ip
                got == CacheRead(engine, cache, ip, now)
            IN  /\ "cache" \in lk'[l].reads
                /\ cache' = got.cache
                /\ \A k \in Lookups \ {l} : lk'[k] = lk[k]
                /\ got.value # NullObj =>
                     /\ lk'[l].via = "hit"
                     /\ lk'[l].reads = {"cache"}
                     /\ inflight' = inflight
                     /\ res' = res
                /\ got.value = NullObj =>
                     /\ lk'[l].reads = {"cache", "inflight"}
                     /\ inflight[ip] # 0 =>
                          /\ lk'[l].via = "joined"
                          /\ lk'[l].handle = inflight[ip]
                          /\ inflight' = inflight
                          /\ ~Launches(l)
                          /\ Calls' = Calls
                     /\ inflight[ip] = 0 =>
                          /\ lk'[l].via = "fresh"
                          /\ Launches(l)
                          /\ \A a \in Primaries :
                               res'[l].prim[a] = "pending"
                               /\ res'[l].calls[a] = 1
                          /\ inflight' = [inflight EXCEPT ![ip] = l]
     /\ \A r \in Lookups :
          Launches(r) =>
            /\ Starts(r)
            /\ ValidIp(engine, lk'[r].ip)
            /\ CacheRead(engine, cache, lk'[r].ip, now).value = NullObj
            /\ inflight[lk'[r].ip] = 0]_vars

\* A lookup missed the cache and the in-flight map and issued the three
\* primary calls; a second lookup of the address missed the cache, found the
\* promise and issued none.
C16_Witness ==
  \E l, k \in Lookups :
    /\ lk[l].via = "fresh" /\ lk[l].pc = "awaiting"
    /\ lk[l].reads = {"cache", "inflight"}
    /\ inflight[lk[l].ip] = l
    /\ res[l].stage = "racing"
    /\ \A a \in Primaries : res[l].prim[a] = "pending" /\ res[l].calls[a] = 1
    /\ lk[k].via = "joined" /\ lk[k].pc = "awaiting" /\ lk[k].handle = l
    /\ res[k].stage = "none"

-----------------------------------------------------------------------------
(* C17 *)

\* The failures fetchService is to absorb.
FailureKinds == {"network_error", "aborted", "bad_status", "bad_json"}

\* C17: in both engines fetchService does not throw; it returns null when
\* the status is not 2xx, when the timer aborts the call, on a network error
\* and on a body that does not parse, and it returns the parsed body exactly
\* when a 2xx response parsed.
C17_FetchNeverThrows ==
  call.pc \in {"fetched", "answered"} =>
    /\ call.data # Thrown
    /\ call.reply.kind \in FailureKinds => call.data = NullObj
    /\ call.reply.kind = "ok" => call.data = call.reply.body
    /\ call.data # NullObj =>
         call.reply.kind = "ok" /\ call.data = call.reply.body

\* fetchService has returned null for a call the timer aborted.
C17_Witness ==
  /\ call.pc = "fetched"
  /\ call.reply.kind = "aborted"
  /\ call.data = NullObj

-----------------------------------------------------------------------------
(* C18 *)

\* The country code in the body a provider answered to adapter a.
CountryCodeOf(a, body) ==
  CASE a \in {"ipapi.co", "ipwhois"} -> body.country_code
    [] a = "ipinfo" -> body.country
    [] a = "fallback" -> body.countryCode

\* The adapter call has succeeded.
Succeeded == call.pc = "answered" /\ call.out # Thrown

\* C18: no adapter of either engine succeeds with a record whose country code
\* is missing or empty, and an answer without a country code makes the
\* adapter throw.
C18_CountryCodeRequired ==
  /\ Succeeded => ~Falsy(call.out.country)
  /\ call.pc = "answered" /\ call.data # NullObj
       /\ Falsy(CountryCodeOf(call.adapter, call.data)) => call.out = Thrown

-----------------------------------------------------------------------------
(* C19 *)

\* The provider answered with HTTP success and a body that reports its own
\* failure.
SelfFailure ==
  /\ call.reply.kind = "ok"
  /\ CASE call.adapter = "ipapi.co" -> call.reply.body.error
       [] call.adapter = "ipwhois" -> ~call.reply.body.success
       [] call.adapter = "fallback" /\ engine = "map" ->
            call.reply.body.status # "success"
       [] OTHER -> FALSE

\* What the adapter of the call does when the network fails.
OnNetworkFailure ==
  Query(engine, call.adapter, call.ip, Reply("network_error", NullObj))

\* C19: an adapter whose provider answers 2xx with a body that reports its
\* own failure throws, whether or not the body carries a country code, and
\* what it hands to the race is what it hands over on a network failure.
C19_SelfFailureFails ==
  call.pc = "answered" /\ SelfFailure =>
    /\ call.data = call.reply.body
    /\ call.out = Thrown
    /\ call.out = OnNetworkFailure

\* An adapter has thrown on a body that reports a failure and carries a
\* country code.
C19_Witness ==
  /\ call.pc = "answered"
  /\ SelfFailure
  /\ ~Falsy(CountryCodeOf(call.adapter, call.reply.body))
  /\ call.out = Thrown

-----------------------------------------------------------------------------
(* C20 *)

\* The lookups that have returned.
Done == {l \in Lookups : lk[l].pc = "done"}

\* The two records of engine e that no provider stands behind.
Rejection(e, ip) ==
  IF e = "lru" THEN RejectionRecord(ip) ELSE RejectionRecordM(ip)

Exhausted(e, ip) ==
  IF e = "lru" THEN DegradedRecord(ip) ELSE DegradedRecordM(ip)

\* The record l returned came from an adapter: read from the cache, or the
\* value of a chain that fulfilled.
FromAdapter(l) ==
  \/ lk[l].via = "hit"
  \/ lk[l].via \in {"fresh", "joined"}
       /\ res[lk[l].handle].outcome = "fulfilled"

\* C20: in both engines a returned record has accurate = false exactly when
\* it is the record of a rejected address or the record of an exhausted
\* chain, and those are returned exactly on rejection and on exhaustion; a
\* record that came from an adapter, straight or through the cache, has
\* accurate = true and no error field.
C20_AccurateFlag ==
  \A l \in Done :
    LET rec == lk[l].result
        ip == lk[l].ip
    IN  /\ rec.accurate \in BOOLEAN
        /\ ~rec.accurate <=>
             rec \in {Rejection(engine, ip), Exhausted(engine, ip)}
        /\ rec = Rejection(engine, ip) <=> lk[l].via = "rejected"
        /\ rec = Exhausted(engine, ip) <=>
             /\ lk[l].via \in {"fresh", "joined"}
             /\ res[lk[l].handle].outcome = "rejected"
        /\ FromAdapter(l) <=> rec.accurate
        /\ FromAdapter(l) => "error" \notin DOMAIN rec
        /\ ~FromAdapter(l) => "error" \in DOMAIN rec

\* A lookup answered from the cache has returned an accurate record without
\* an error field, written by a chain that the fallback adapter fulfilled.
C20_Witness ==
  \E l \in Done :
    /\ lk[l].via = "hit"
    /\ lk[l].result.accurate
    /\ "error" \notin DOMAIN lk[l].result
    /\ lk[l].result.source = FallbackSource(engine) \o " (cache)"

-----------------------------------------------------------------------------
(* C21 *)

\* The identifiers the adapters of the two engines give as source.
ProviderIds == {"ipapi.co", "ipinfo", "ipwhois", "freeipapi", "ip-api"}

\* src ends with the cache annotation.
Annotated(src) ==
  Len(src) >= 8 /\ SubSeq(src, Len(src) - 7, Len(src)) = " (cache)"

\* C21: in both engines a returned record carries the cache annotation
\* exactly when it was served from the cache, and then its source is a
\* provider identifier followed by one ' (cache)'; the records in the cache
\* carry the bare identifier, and a hit leaves the stored record as it was
\* and returns a copy of it that differs in the source alone.
C21_CacheAnnotation ==
  /\ [](\A l \in Done :
          /\ Annotated(lk[l].result.source) <=> lk[l].via = "hit"
          /\ lk[l].via = "hit" =>
               \E p \in ProviderIds : lk[l].result.source = p \o " (cache)")
  /\ [](\A i \in 1..Len(cache) : cache[i].value.source \in ProviderIds)
  /\ [][\A l \in Lookups :
          Hits(l) =>
            LET ip == lk'[l].ip IN
            /\ CacheHas(cache, ip) /\ CacheHas(cache', ip)
            /\ CacheEntry(cache', ip).value = CacheEntry(cache, ip).value
            /\ lk'[l].result =
                 [CacheEntry(cache, ip).value EXCEPT
                    !.source = @ \o " (cache)"]]_vars

\* A lookup was served from a cache that holds two records; its record is
\* annotated and the stored one is not.
C21_Witness ==
  \E l \in Done :
    /\ lk[l].via = "hit"
    /\ Len(cache) = 2
    /\ CacheHas(cache, lk[l].ip)
    /\ CacheEntry(cache, lk[l].ip).value.source \in ProviderIds
    /\ lk[l].result.source =
         CacheEntry(cache, lk[l].ip).value.source \o " (cache)"

-----------------------------------------------------------------------------
(* C22 *)

\* Chain r takes a step.
Moves(r) == res'[r] # res[r]

\* C22: in both engines a chain whose primaries and fallback all failed
\* settles as a failure and carries no record; no step of a failed chain
\* changes the cache; once it has settled, and until the address is looked up
\* again, the address is not in the in-flight map and has no entry in the LRU
\* cache (in the Map-cache engine none that the cache read serves, that read
\* never deleting); and the next lookup of the address builds a new chain
\* with new outbound calls.
C22_FailureLeavesNoTrace ==
  /\ [](\A r \in Lookups :
          /\ res[r].fb = "fail" <=> res[r].outcome = "rejected"
          /\ res[r].outcome = "rejected" =>
               /\ res[r].value = NullObj
               /\ res[r].first = "none"
               /\ res[r].stage \in {"finally", "settled"}
               /\ CacheRead(engine, cache, res[r].ip, now).value = NullObj
               /\ res[r].stage = "settled" => res[r].ip \in failed)
  /\ [](\A ip \in failed :
          /\ ValidIp(engine, ip)
          /\ inflight[ip] = 0
          /\ CacheRead(engine, cache, ip, now).value = NullObj
          /\ engine = "lru" => ~CacheHas(cache, ip))
  /\ [][/\ \A r \in Lookups :
             Moves(r) /\ res'[r].outcome = "rejected" => cache' = cache
        /\ \A r \in Lookups :
             res[r].stage = "finally" /\ res[r].outcome = "rejected" =>
               /\ res'[r].stage = "settled"
               /\ inflight'[res[r].ip] = 0
        /\ \A l \in Lookups :
             Starts(l) /\ lk'[l].ip \in failed =>
               /\ lk'[l].via = "fresh"
               /\ Launches(l)
               /\ inflight'[lk'[l].ip] = l
               /\ \A a \in Primaries :
                    res'[l].prim[a] = "pending" /\ res'[l].calls[a] = 1]_vars

\* Two lookups shared a chain that failed: it has settled, both have
\* returned, and the address is in neither the cache nor the in-flight map.
C22_Witness ==
  \E l, k \in Done :
    /\ l # k
    /\ lk[l].handle = l /\ lk[k].handle = l
    /\ res[l].stage = "settled" /\ res[l].outcome = "rejected"
    /\ res[l].ip \in failed
    /\ inflight[res[l].ip] = 0
    /\ ~CacheHas(cache, res[l].ip)
    /\ cache # <<>>

-----------------------------------------------------------------------------
(* C23 *)

\* Primary a of chain r succeeds in this step, the race being undecided.
FirstSuccess(r, a) ==
  /\ res[r].stage = "racing"
  /\ res[r].prim[a] = "pending"
  /\ res'[r].prim[a] = "ok"

\* The outbound calls that have not completed, over all chains.
AllPending == [r \in Lookups |-> PendingCalls(r)]

\* C23: in both engines the first success of a primary settles the race at
\* once, whatever the other primaries are doing, with the record of that
\* primary; from then until every lookup waiting for the chain has returned
\* that record no outbound call completes and no time passes, so a primary
\* that is still pending neither answers nor is aborted before the lookups
\* return.
C23_SlowPrimaryNoDelay ==
  /\ [][/\ \A r \in Lookups, a \in Primaries :
             FirstSuccess(r, a) =>
               /\ res'[r].stage = "then"
               /\ res'[r].first = a
               /\ res'[r].value # Thrown
               /\ res'[r].value.source = a
               /\ \A b \in Primaries \ {a} : res'[r].prim[b] = res[r].prim[b]
        /\ \A r \in Lookups :
             \/ res[r].stage \in {"then", "finally"}
             \/ res[r].stage = "settled"
                  /\ \E l \in Lookups :
                       lk[l].pc = "awaiting" /\ lk[l].handle = r
             => /\ AllPending' = AllPending
                /\ now' = now
                /\ res'[r].value = res[r].value
        /\ \A l \in Lookups :
             /\ lk[l].pc = "awaiting" /\ lk'[l].pc = "done"
             /\ res[lk[l].handle].outcome = "fulfilled"
             => lk'[l].result = res[lk[l].handle].value]_vars
  /\ [](\A l \in Done :
          lk[l].via \in {"fresh", "joined"}
            /\ PendingCalls(lk[l].handle) # {} =>
              /\ res[lk[l].handle].outcome = "fulfilled"
              /\ res[lk[l].handle].first \in Primaries
              /\ lk[l].result.source = res[lk[l].handle].first)

\* A lookup has returned the record of ipinfo, the first primary to succeed
\* after ipapi.co failed, while the call to ipwho.is is still pending.
C23_Witness ==
  \E l \in Done :
    /\ lk[l].handle = l
    /\ res[l].first = "ipinfo"
    /\ lk[l].result.source = "ipinfo"
    /\ res[l].prim["ipwhois"] = "pending"
    /\ res[l].prim["ipapi.co"] # "pending"
    /\ res[l].stage = "settled"

-----------------------------------------------------------------------------
(* C24 *)

\* The fallback adapter is called for chain r in this step.
CallsFallback(r) == res'[r].calls["fallback"] > res[r].calls["fallback"]

\* C24: in both engines a chain calls the fallback adapter at most once; the
\* call is made by the .catch reaction, when each of the three primaries has
\* failed; and a chain in which a primary succeeded never calls it.
C24_FallbackOnce ==
  /\ [](\A r \in Lookups :
          LET chain == res[r] IN
          /\ chain.calls["fallback"] \in {0, 1}
          /\ chain.calls["fallback"] = 1 <=> chain.fb # "idle"
          /\ chain.calls["fallback"] = 1 =>
               /\ chain.first = "none"
               /\ \A a \in Primaries : chain.prim[a] \notin {"pending", "ok"}
               /\ \A a \in Primaries : chain.calls[a] = 1
          /\ chain.first # "none" => chain.calls["fallback"] = 0
          /\ (\E a \in Primaries : chain.prim[a] = "ok") =>
               chain.calls["fallback"] = 0)
  /\ [][\A r \in Lookups :
          CallsFallback(r) =>
            /\ res[r].stage = "catch"
            /\ res[r].calls["fallback"] = 0
            /\ res'[r].calls["fallback"] = 1
            /\ \A a \in Primaries : res[r].prim[a] = "fail"
            /\ res'[r].stage = "fallback"]_vars

\* In the Map-cache engine the three primaries have failed and the one call
\* to ip-api.com is pending.
C24_Witness ==
  /\ engine = "map"
  /\ \E r \in Lookups :
       /\ res[r].stage = "fallback"
       /\ res[r].fb = "pending"
       /\ res[r].calls["fallback"] = 1
       /\ \A a \in Primaries : res[r].prim[a] = "fail"

-----------------------------------------------------------------------------
(* C25 *)

\* The call of primary a of chain r completes in this step, after the race
\* of the chain was decided.
CompletesLate(r, a) ==
  /\ res[r].stage \notin {"none", "racing"}
  /\ res[r].prim[a] = "pending"
  /\ res'[r].prim[a] # "pending"

\* C25: in both engines a chain writes the cache in one step only, the .then
\* reaction, which stores under the address of the chain the record that
\* settled it and which a chain runs once; the cache changes in no step
\* other than such a write and the cache read of a starting lookup; and a
\* primary call that completes after the race was decided, with a record or
\* with a failure, changes nothing but its own status: not the record of the
\* chain, not what the lookups returned, not the cache, not the in-flight
\* map, and it triggers no fallback call.
C25_SingleWrite ==
  [][/\ \A r \in Lookups :
          Writes(r) =>
            LET ip == res[r].ip IN
            /\ res[r].value \notin {NullObj, Thrown}
            /\ CacheHas(cache', ip)
            /\ CacheEntry(cache', ip).value = res[r].value
            /\ res'[r].value = res[r].value
            /\ res[r].value.source =
                 IF res[r].first # "none" THEN res[r].first
                 ELSE FallbackSource(engine)
     /\ \A r \in Lookups :
          /\ res[r].stage = "then" => Writes(r)
          /\ res[r].stage \in {"finally", "settled"} =>
               res'[r].stage \in {"finally", "settled", "none"}
     /\ cache' # cache =>
          \/ \E r \in Lookups : Writes(r)
          \/ \E l \in Lookups : Starts(l)
     /\ \A r \in Lookups, a \in Primaries :
          CompletesLate(r, a) =>
            /\ res' = [res EXCEPT ![r].prim[a] = "done"]
            /\ lk' = lk
            /\ cache' = cache
            /\ inflight' = inflight]_vars

\* A lookup returned the record of the first primary to succeed; time has
\* passed since, and the calls that were still pending have completed: the
\* cache holds the record the lookup returned.
C25_Witness ==
  \E l \in Done :
    /\ lk[l].handle = l
    /\ res[l].outcome = "fulfilled"
    /\ res[l].first \in Primaries
    /\ lk[l].doneAt < now
    /\ PendingCalls(l) = {}
    /\ CacheHas(cache, lk[l].ip)
    /\ CacheEntry(cache, lk[l].ip).value = lk[l].result
    /\ inflight[lk[l].ip] = 0

-----------------------------------------------------------------------------
(* C26 *)

\* The step is ipCache.set(key, value) on a key the Map holds.
Overwrites(key, value) == Set(key, value) /\ CacheHas(cache, key)

\* C26: LRUCache.set on a key that is present replaces its entry by the new
\* value with the expiration now + ttl, puts it last in the order of
\* eviction, keeps every other entry as it was and in the same order, and
\* leaves the number of entries unchanged.
C26_SetOverwrites ==
  [][\A key \in Keys, value \in Values :
       Overwrites(key, value) =>
         /\ CacheEntry(cache', key) =
              [key |-> key, value |-> value, expiresAt |-> now + ttlMs]
         /\ cache'[Len(cache')].key = key
         /\ Len(cache') = Len(cache)
         /\ CacheKeys(cache') = CacheKeys(cache)
         /\ SelectSeq(cache', LAMBDA e : e.key # key) =
              SelectSeq(cache, LAMBDA e : e.key # key)]_vars

\* The cache is full, time has passed since the oldest of its entries was
\* written, and set has just overwritten that entry with another value: it
\* is now the last to be evicted and expires a full time to live from now.
C26_Witness ==
  /\ op.name = "set" /\ op.had
  /\ op.size = maxEntries /\ Len(cache) = maxEntries
  /\ now > 0
  /\ cache[Len(cache)] =
       [key |-> op.key, value |-> op.value, expiresAt |-> now + ttlMs]
  /\ \E i \in 1..Len(cache) : cache[i].expiresAt < now + ttlMs

-----------------------------------------------------------------------------
(* C27 *)

\* rec has the fields every response of GET carries.
IsRecord(rec) ==
  /\ rec \notin {NullObj, Thrown}
  /\ {"source", "ip", "country", "accurate"} \subseteq DOMAIN rec
  /\ rec.accurate \in BOOLEAN

\* C27: provided every outbound call completes, by an answer, an error or
\* the abort timer, and the event loop runs what is queued, every GET that
\* has been invoked returns: a lookup that waits for a chain eventually has
\* its record; a lookup returns in the step in which it starts or from its
\* await, never both; what it returns is a record, not an exception; and
\* the record it has returned stays the one it returned.
C27_AlwaysReturns ==
  /\ \A l \in Lookups : (lk[l].pc = "awaiting") ~> (lk[l].pc = "done")
  /\ [](\A l \in Lookups :
          /\ lk[l].pc \in {"idle", "awaiting", "done"}
          /\ lk[l].pc = "done" => IsRecord(lk[l].result)
          /\ lk[l].pc # "done" => lk[l].result = NullObj)
  /\ [][\A l \in Lookups :
          /\ Starts(l) => lk'[l].pc \in {"awaiting", "done"}
          /\ lk[l].pc = "awaiting" => lk'[l].pc \in {"awaiting", "done"}
          /\ lk[l].pc = "done" => lk'[l] \in {lk[l], IdleLookup}]_vars

\* A lookup has returned the record of a primary whose rivals are still
\* pending, and a lookup of a private address has returned its rejection.
C27_Witness ==
  \E l, k \in Done :
    /\ lk[l].via = "fresh"
    /\ res[l].outcome = "fulfilled"
    /\ PendingCalls(l) # {}
    /\ IsRecord(lk[l].result)
    /\ lk[k].via = "rejected"
    /\ IsRecord(lk[k].result)

-----------------------------------------------------------------------------
(* C28 *)

\* The entries of cache c, whatever their order.
Entries(c) == {c[i] : i \in 1..Len(c)}

\* C28: in both engines a lookup served from the cache issues no outbound
\* call and changes no chain, neither reads nor changes the in-flight map,
\* and leaves every entry as it is, the expiration of the entry it serves
\* included: at most the order of eviction changes.  It is served no later
\* than the expiration of its entry, and that expiration is the one given
\* when the record was written, as no step but the write of a record changes
\* the expiration of a key.
C28_HitFrame ==
  [][/\ \A l \in Lookups :
          Hits(l) =>
            LET ip == lk'[l].ip IN
            /\ res' = res
            /\ inflight' = inflight
            /\ lk'[l].reads = {"cache"}
            /\ lk'[l].handle = 0
            /\ Entries(cache') = Entries(cache)
            /\ Len(cache') = Len(cache)
            /\ CacheEntry(cache', ip).expiresAt =
                 CacheEntry(cache, ip).expiresAt
            /\ now <= CacheEntry(cache, ip).expiresAt
            /\ engine = "map" => cache' = cache
     /\ \A key \in CacheKeys(cache) \cap CacheKeys(cache') :
          CacheEntry(cache', key).expiresAt # CacheEntry(cache, key).expiresAt
            => /\ \E r \in Lookups : Writes(r) /\ res[r].ip = key
               /\ CacheEntry(cache', key).expiresAt = now + TimeToLive(engine)
     /\ \A key \in CacheKeys(cache') \ CacheKeys(cache) :
          /\ \E r \in Lookups : Writes(r) /\ res[r].ip = key
          /\ CacheEntry(cache', key).expiresAt = now + TimeToLive(engine)]_vars

\* In the LRU engine a lookup was served, some time after the record was
\* written, from a cache that holds two records: the entry it was served
\* from is last in the order of eviction and expires when it did before.
C28_Witness ==
  /\ engine = "lru"
  /\ Len(cache) = 2
  /\ \E l \in Done :
       /\ lk[l].via = "hit"
       /\ cache[2].key = lk[l].ip
       /\ cache[2].expiresAt < now + ttlMs
       /\ res[l].stage = "none"
       /\ inflight[lk[l].ip] = 0

-----------------------------------------------------------------------------
(* C29 *)

\* The records the adapters of engine e can produce when asked about ip.
AdapterRecords(e, ip) ==
  (UNION {{QueryPrimary(e, a, ip, reply) : reply \in PrimaryReplies(a)} :
            a \in Primaries}
   \cup {QueryFallback(e, ip, reply) : reply \in FallbackReplies(e)})
    \ {Thrown}

\* The records GET builds itself for ip, on rejection and on exhaustion.
OwnRecords(ip) ==
  {RejectionRecord(ip), RejectionRecordM(ip),
   DegradedRecord(ip), DegradedRecordM(ip)}

\* C29: in both engines every cache entry holds a record with accurate = true
\* and the source of a provider, which an adapter produces when asked about
\* the address the entry is keyed by, and never a rejection or exhaustion
\* record; and an entry appears or changes only in the .then reaction of the
\* chain registered for its key, which stores the record the chain resolved
\* to under the address the chain was built for, whatever address the
\* provider echoed.
C29_CacheHoldsAdapterRecords ==
  /\ [](\A i \in 1..Len(cache) :
          LET key == cache[i].key
              value == cache[i].value
          IN  /\ value \notin {NullObj, Thrown}
              /\ value.accurate = TRUE
              /\ value.source \in ProviderIds
              /\ "error" \notin DOMAIN value
              /\ value \notin OwnRecords(key)
              /\ value \notin OwnRecords(value.ip)
              /\ value \in AdapterRecords(engine, key)
              /\ ValidIp(engine, key)
              /\ key \in Addresses)
  /\ [][\A i \in 1..Len(cache') :
          cache'[i] \notin Entries(cache) =>
            \E r \in Lookups :
              /\ Writes(r)
              /\ res[r].ip = cache'[i].key
              /\ res[r].value = cache'[i].value
              /\ res'[r].outcome = "fulfilled"
              /\ inflight[cache'[i].key] = r]_vars

\* The cache holds, under the address a lookup asked about, the record the
\* lookup returned, in which the provider echoed another address.
C29_Witness ==
  \E i \in 1..Len(cache) :
    /\ cache[i].value.ip # cache[i].key
    /\ \E l \in Done :
         /\ lk[l].ip = cache[i].key
         /\ lk[l].via = "fresh"
         /\ lk[l].result = cache[i].value

-----------------------------------------------------------------------------
(* C30 *)

\* The .finally reaction of chain r runs in this step.
Settles(r) == res[r].stage = "finally" /\ res'[r].stage = "settled"

\* C30: in both engines the chains of an address that have not settled are
\* at any moment none, or the one chain registered for it in the in-flight
\* map.  The step in which a chain settles finds the chain's own handle in
\* the map, removes it and leaves the handles of the other addresses alone,
\* and no other chain of that address is under way then; a handle leaves the
\* map only in the step in which its own chain settles and is never replaced
\* by another; and a handle is registered only for an address that has none.
C30_OwnHandleOnly ==
  /\ [](\A ip \in Addresses :
          Unsettled(ip) = IF inflight[ip] = 0 THEN {} ELSE {inflight[ip]})
  /\ [][/\ \A r \in Lookups :
             Settles(r) =>
               LET ip == res[r].ip IN
               /\ inflight[ip] = r
               /\ inflight' = [inflight EXCEPT ![ip] = 0]
               /\ \A k \in Lookups \ {r} :
                    res[k].ip = ip => res[k].stage \in {"none", "settled"}
        /\ \A ip \in Addresses :
             inflight'[ip] # inflight[ip] =>
               \/ /\ inflight[ip] # 0
                  /\ inflight'[ip] = 0
                  /\ Settles(inflight[ip])
               \/ /\ inflight[ip] = 0
                  /\ res[inflight'[ip]].stage = "none"
                  /\ res'[inflight'[ip]].stage = "racing"
                  /\ res'[inflight'[ip]].ip = ip]_vars

\* In the Map-cache engine an earlier resolution of an address has settled,
\* written its record and removed its handle, the record has expired, and a
\* chain built later for the same address is registered and under way.
C30_Witness ==
  /\ engine = "map"
  /\ \E k \in Lookups :
       LET ip == res[k].ip IN
       /\ res[k].stage \in {"racing", "fallback"}
       /\ inflight[ip] = k
       /\ Unsettled(ip) = {k}
       /\ CacheHas(cache, ip)
       /\ CacheEntry(cache, ip).expiresAt <= now

-----------------------------------------------------------------------------
(* C31 *)

\* The write of key brings the cache of the Map-cache engine above its limit.
Overflows(key, value) ==
  /\ MapWrite(key, value)
  /\ ~CacheHas(cache, key)
  /\ Len(cache) = MapCacheLimit

\* C31: in the Map-cache engine, when a cache write brings the cache above
\* its limit, exactly one entry leaves, it is of the entries held before the
\* write the one whose last use (write or served read) is the oldest, and it
\* is not the entry just written.
C31_EvictsLeastRecentlyUsed ==
  [][\A key \in Keys, value \in Values :
       Overflows(key, value) =>
         LET gone == CacheKeys(cache) \ CacheKeys(cache') IN
         /\ Cardinality(gone) = 1
         /\ Len(cache') = MapCacheLimit
         /\ CacheHas(cache', key)
         /\ \A k \in gone : LeastRecentlyUsed(cache, k)]_vars

-----------------------------------------------------------------------------
(* C32 *)

\* Service a of the legacy handler has settled to a response.
Succeeds(a) == legacy.svc[a] \notin {Pending, NullObj, Thrown}

\* The services that have succeeded, in the order in which they settled.
Successes == SelectSeq(legacy.order, Succeeds)

\* C32: in the legacy handler, once GET is over and at least one of the
\* three raced services has succeeded, what GET returned is the response of
\* the service that was the first to succeed, in whatever order the three
\* settled and whichever failed before.
C32_FirstSuccessReturned ==
  legacy.pc = "done" /\ legacy.svc # <<>> /\ Successes # <<>>
    => legacy.result = legacy.svc[Head(Successes)]

-----------------------------------------------------------------------------
(* C33 *)

\* The records GET of the legacy handler may return once the race has begun:
\* the response of a raced service, of ip-api.com, or the final record.
LegacyAnswers(ip) ==
  (UNION {{Service(a, ip, reply) : reply \in PrimaryReplies(a)} :
            a \in Primaries}
   \cup {ServiceIpApi(ip, reply) : reply \in RepliesOf(IpApiBodies)}
   \cup {FinalRecord(ip)})
    \ {NullObj, Thrown}

\* C33: in the legacy handler the failure of a raced service, a 2xx answer
\* whose body cannot be parsed included, never leaves GET as an exception:
\* once the race has begun, what GET returns is the response of a raced
\* service, the record of ip-api.com or the final record with accurate =
\* false.
C33_FailuresContained ==
  legacy.pc = "done" /\ legacy.svc # <<>>
    => /\ legacy.result # Thrown
       /\ legacy.result \in LegacyAnswers(legacy.ip)

-----------------------------------------------------------------------------
(* C34 *)

\* C34: the record the header-based route returns has accurate = true
\* exactly when the x-vercel-ip-country header is present and not empty, and
\* then carries that country; when the header is absent or empty the record
\* has country 'US' and accurate = false; and the route has issued no
\* outbound call, whatever the request.
C34_AccurateIffCountryHeader ==
  route.pc = "done" =>
    LET header == route.req.country IN
    /\ route.result.accurate = TRUE <=> header \notin {Null, Undefined, ""}
    /\ route.result.accurate \in BOOLEAN
    /\ header \notin {Null, Undefined, ""} => route.result.country = header
    /\ header \in {Null, Undefined, ""} =>
         /\ route.result.country = "US"
         /\ route.result.accurate = FALSE
    /\ call = NoCall
    /\ legacy = NoLegacy
    /\ \A r \in Lookups : res[r] = NoResolution

\* The route has answered a request whose country header is present but
\* empty, and whose address came from x-forwarded-for.
C34_Witness ==
  /\ route.pc = "done"
  /\ route.req.country = ""
  /\ route.req.city = "Berlin"
  /\ route.result.country = "US"
  /\ route.result.accurate = FALSE
  /\ route.result.ip = "1.1.1.1"

-----------------------------------------------------------------------------
(* C35 *)

\* C35: provided the request to /api/ip-info completes, a page that is
\* mounted eventually is initialized or unmounted, whether the request
\* yields an accurate record, a degraded one, a body that cannot be used or
\* an exception; isInitialized never goes back to false; and the selected
\* country is set by the initialization only in the step that applies a
\* record with a country and accurate = true, to the entry of that country.
C35_InitializesAnyway ==
  /\ page.isMounted ~> (page.isInitialized \/ ~page.isMounted)
  /\ [][/\ page.isInitialized => page'.isInitialized
        /\ (page'.selectedCountry # page.selectedCountry
              \/ page'.selections # page.selections) =>
             /\ page.pc = "json"
             /\ page.isMounted
             /\ page'.data # NullObj
             /\ ~Falsy(page'.data.country)
             /\ page'.data.accurate = TRUE
             /\ page'.selectedCountry = getCountryConfig(page'.data.country)
             /\ page'.isInitialized]_vars

\* The page is mounted and initialized after a record with accurate = false
\* that names another country than the default: the selection is the default.
C35_Witness ==
  /\ page.isMounted
  /\ page.isInitialized
  /\ page.pc = "done"
  /\ page.data # NullObj
  /\ page.data.country = "DE"
  /\ page.data.accurate = FALSE
  /\ page.selectedCountry = countries[1]
  /\ page.selections = 0

-----------------------------------------------------------------------------
(* C36 *)

\* s consists of characters of the string chars only.
RECURSIVE MadeOf(_, _)
MadeOf(s, chars) ==
  \/ Len(s) = 0
  \/ /\ Includes(chars, SubSeq(s, 1, 1))
     /\ MadeOf(SubSeq(s, 2, Len(s)), chars)

\* s is at least one letter followed by at least one decimal digit.
LettersThenDigits(s) ==
  \E k \in 1..(Len(s) - 1) :
    /\ MadeOf(SubSeq(s, 1, k), LATIN_CHARS \o UpperChars)
    /\ MadeOf(SubSeq(s, k + 1, Len(s)), DigitChars)

\* C36: whatever the random draws, generatePassword returns a string whose
\* length is the target length drawn, which lies between 6 and 8, made of at
\* least one letter followed by at least one decimal digit.
C36_PasswordShape ==
  gen.fn = "generatePassword" =>
    /\ gen.out.targetLength \in 6..8
    /\ Len(gen.out.password) = gen.out.targetLength
    /\ LettersThenDigits(gen.out.password)

\* A password of eight characters was returned whose word, longer than the
\* room left for it, was cut to three letters and followed by five digits.
C36_Witness ==
  /\ gen.fn = "generatePassword"
  /\ gen.out.password = "PRI75312"

-----------------------------------------------------------------------------
(* C37 *)

\* The parts of an address before and after its first "@".
LocalPart(email) == SubSeq(email, 1, IndexFrom(email, "@", 1) - 1)

DomainPart(email) == SubSeq(email, IndexFrom(email, "@", 1) + 1, Len(email))

\* C37: whatever the first name, the last name and the random draws, the
\* local part of the address returned by generateEmail is 6 to 11
\* characters long, and its domain is the custom domain, unchanged, when
\* one is given.
C37_EmailShape ==
  gen.fn = "generateEmail" =>
    /\ Includes(gen.out, "@")
    /\ Len(LocalPart(gen.out)) \in 6..11
    /\ (gen.args.customDomain \notin {Undefined, ""} =>
          DomainPart(gen.out) = gen.args.customDomain)

\* A first name without any Latin character and a long last name were given
\* with a custom domain: the local part is a drawn letter, the last name cut
\* to six letters and a year, eleven characters in all.
C37_Witness ==
  /\ gen.fn = "generateEmail"
  /\ gen.args.firstName = "###"
  /\ gen.args.lastName = "Featherstone"
  /\ gen.args.customDomain = "corp.example"
  /\ Len(LocalPart(gen.out)) = 11
  /\ DomainPart(gen.out) = "corp.example"

-----------------------------------------------------------------------------
(* C38 *)

\* The number written by a string of decimal digits.
RECURSIVE DigitsValue(_)
DigitsValue(s) ==
  IF Len(s) = 0 THEN 0
  ELSE (10 * DigitsValue(SubSeq(s, 1, Len(s) - 1)))
         + (IndexFrom(DigitChars, SubSeq(s, Len(s), Len(s)), 1) - 1)

\* The number of days of month m of year y in the Gregorian calendar.
DaysOfMonth(y, m) ==
  IF m \in {4, 6, 9, 11} THEN 30
  ELSE IF m # 2 THEN 31
  ELSE IF y % 400 = 0 THEN 29
  ELSE IF y % 100 = 0 THEN 28
  ELSE IF y % 4 = 0 THEN 29
  ELSE 28

\* The string date is YYYY-MM-DD and names a day of the calendar.
ValidDate(date) ==
  /\ Len(date) = 10
  /\ SubSeq(date, 5, 5) = "-"
  /\ SubSeq(date, 8, 8) = "-"
  /\ MadeOf(SubSeq(date, 1, 4) \o SubSeq(date, 6, 7) \o SubSeq(date, 9, 10),
            DigitChars)
  /\ DigitsValue(SubSeq(date, 6, 7)) \in 1..12
  /\ DigitsValue(SubSeq(date, 9, 10)) \in
       1..DaysOfMonth(DigitsValue(SubSeq(date, 1, 4)),
                      DigitsValue(SubSeq(date, 6, 7)))

\* C38: whatever the current year and the random draws, generateBirthday
\* returns a date of the calendar: its year is the current year less an age
\* of 18 to 25, its month is 1 to 12, and its day is at most the number of
\* days of that month in that year, 29 for February in leap years only.
C38_BirthdayIsADate ==
  gen.fn = "generateBirthday" =>
    /\ ValidDate(gen.out)
    /\ (gen.args.currentYear - DigitsValue(SubSeq(gen.out, 1, 4))) \in 18..25

\* A birthday on the 29th of February of the leap century 2400 was returned
\* in 2423.
C38_Witness ==
  /\ gen.fn = "generateBirthday"
  /\ gen.args.currentYear = 2423
  /\ gen.out = "2400-02-29"

=============================================================================
